---- MODULE Spec2Model ----
(***************************************************************************)
(* Dispatch and ride-lifecycle engine of the uber-clone backend.           *)
(*                                                                         *)
(* The repository holds two deployments that never run in one process:     *)
(*   "app"    : backend/app/__init__.py   (app/api, app/websockets)        *)
(*   "legacy" : backend/app.py            (api, sockets, services)         *)
(* Every request handler is a sequence of MongoDB calls.  Each find_one,   *)
(* insert_one and update_one is atomic on its own document, nothing else   *)
(* is: a handler is therefore modelled as one action whose disjuncts are   *)
(* its database calls, and the handlers in flight interleave between them. *)
(***************************************************************************)
EXTENDS Integers, Sequences, FiniteSets, Bags, TLC

(* ---------------------------------------------------------------------- *)
(* Bounds                                                                   *)
(* ---------------------------------------------------------------------- *)
MaxRides == 2
MaxCalls == 2
\* rides asked for where the whole legacy deployment is explored
LifecycleRides == 1

(* ---------------------------------------------------------------------- *)
(* Identifiers.  A value stored in MongoDB or carried on the wire is either *)
(* an ObjectId, a string, None, or a missing key; a string never equals     *)
(* the ObjectId it renders.                                                 *)
(* ---------------------------------------------------------------------- *)
None == [t |-> "none", v |-> 0]

Absent == [t |-> "absent", v |-> 0]

ObjectId(x) == [t |-> "oid", v |-> x.v]

str(x) == [t |-> "str", v |-> x.v]

Num(n) == [t |-> "num", v |-> n]

\* dict.get(key): a missing key reads as None
get(x) == IF x = Absent THEN None ELSE x

\* Python truthiness of a stored id or amount
Truthy(x) == x.t \notin {"none", "absent"} /\ ~(x.t = "num" /\ x.v = 0)

RiderUsers == {101, 102}

DriverUsers == {201, 202}

Users == RiderUsers \cup DriverUsers

\* the JWT identity is the string form of the user's _id
Identity(u) == [t |-> "str", v |-> u]

\* request.sid of the socket session opened by the client of user u
Sid(u) == [t |-> "str", v |-> u]

\* user_type given at registration, the claim login puts into the token
UserType(u) == IF u \in DriverUsers THEN "driver" ELSE "rider"

\* the access token login issued to user u, and a string that is no token
TokenOf(u) == [t |-> "jwt", v |-> u]

Garbage == [t |-> "str", v |-> 0]

\* the tokens the client of user u can present: none, a string that does not
\* decode, its own
Tokens(u) == {None, Garbage, TokenOf(u)}

\* flask_jwt_extended.decode_token: the claims of a token this server signed;
\* anything else raises, shown as sub = None
decode_token(token) ==
    IF token.t = "jwt"
    THEN [sub |-> str(token), user_type |-> UserType(token.v)]
    ELSE [sub |-> None, user_type |-> "unknown"]

\* rooms of the Socket.IO server: f"user_{user_id}" and f"ride_{ride_id}"
UserRoom(user_id) == [room |-> "user", id |-> user_id.v]

RideRoom(ride_id) == [room |-> "ride", id |-> ride_id.v]

\* a session that is not connected
NoSession == [token |-> None, connected |-> FALSE, rooms |-> {}]

\* _id of the driver profile document of user u: an ObjectId of its own
DriverDocId(u) == [t |-> "oid", v |-> u + 100]

\* the ride id a client holds is the string the server rendered
WireRideIds == {[t |-> "str", v |-> i] : i \in 1..MaxRides}

(* ---------------------------------------------------------------------- *)
(* State                                                                    *)
(* ---------------------------------------------------------------------- *)
VARIABLES
    deployment,   \* "app" | "legacy": which application factory is running
    rides,        \* the rides collection, in insertion order
    drivers,      \* the drivers collection, one profile per driver user
    riders,       \* the riders collection, at most one profile per rider user
    calls,        \* the bag of request handlers in flight, each at its next database call
    payments,     \* the ride_id of every payment record (unique index)
    quote,        \* the last call of a fare function: its arguments and its result
    events,       \* the socket events emitted so far, one record per recipient
    connected_clients,  \* app/websockets: request.sid -> the client's user_id and user_type
    sessions      \* the Socket.IO server's sessions: the token presented at
                  \* connect, whether the connection stands, the rooms joined

vars == <<deployment, rides, drivers, riders, calls, payments, quote, events,
          connected_clients, sessions>>


\* a find_one that matched nothing
NoRide == [_id |-> None, rider_id |-> None, driver_id |-> None, status |-> "none",
           ride_type |-> "none", estimated_fare |-> None, final_fare |-> None,
           cancelled_by |-> None, pickup_location |-> None]

NoDriver == [_id |-> None, user_id |-> None, is_online |-> FALSE,
             current_ride_id |-> None, current_location |-> None,
             vehicle_type |-> "none", total_rides |-> 0, earnings |-> 0,
             socket_id |-> Absent]

\* a location update that also marks the profile online
located_and_online(profile, location) ==
    [profile EXCEPT !.current_location = location, !.is_online = TRUE]

\* the $set of a location update on a driver or rider profile (the timestamps
\* it also sets are not kept)
located(profile, location) == [profile EXCEPT !.current_location = location]

\* an event as one client receives it: its name, the user it reaches, the
\* driver and the ride it is about
Event(event, to, driver, ride_id) ==
    [event |-> event, to |-> to, driver |-> driver, ride_id |-> ride_id]

\* no fare function has been called
NoQuote == [fn |-> "none", ride_type |-> "none", distance_km |-> 0,
            started_at |-> None, completed_at |-> None, passengers |-> 0,
            hour |-> 0, weekday |-> 0, amount |-> None]

\* a handler slot: idle, or running at pc with the locals it still needs:
\* driver_id = driver['_id'], rider_id = ride['rider_id'],
\* ride_driver_id = ride.get('driver_id') as read, final_fare, ride_type,
\* location = driver.get('current_location') as read
IdleCall == [op |-> "idle", pc |-> "idle", user |-> None, ride_id |-> None,
             driver_id |-> None, rider_id |-> None, ride_driver_id |-> None,
             ride_type |-> "none", final_fare |-> None, location |-> None]

\* the handlers in flight, and the idle worker that takes the next request
InFlight == BagToSet(calls)

Slots == InFlight \cup {IdleCall}

\* a worker is free to take a request
Free(c) == c = IdleCall /\ BagCardinality(calls) < MaxCalls

\* handler c is in flight in op, about to make the call pc
At(c, op, pc) == c \in InFlight /\ c.op = op /\ c.pc = pc

\* handler c moves on as next (IdleCall: it returns)
Put(c, next) ==
    LET rest == IF c = IdleCall THEN calls ELSE calls (-) SetToBag({c})
    IN  IF next = IdleCall THEN rest ELSE rest (+) SetToBag({next})

\* a fresh invocation of handler op by the authenticated user
Enter(op, user, ride_id) ==
    [IdleCall EXCEPT !.op = op, !.user = user, !.ride_id = ride_id]

\* the handler returns
Return(c) == Put(c, IdleCall)

(* ---------------------------------------------------------------------- *)
(* The repository: single-document reads and writes                        *)
(* ---------------------------------------------------------------------- *)
\* db.rides.find_one({'_id': id}); a string id never matches an ObjectId _id
FindRide(id) ==
    IF \E i \in DOMAIN rides : rides[i]._id = id
    THEN rides[CHOOSE i \in DOMAIN rides : rides[i]._id = id]
    ELSE NoRide

RideIndex(id) == CHOOSE i \in DOMAIN rides : rides[i]._id = id

\* db.drivers.find_one({'user_id': uid})
FindDriverByUser(uid) ==
    IF \E d \in DriverUsers : drivers[d].user_id = uid
    THEN drivers[CHOOSE d \in DriverUsers : drivers[d].user_id = uid]
    ELSE NoDriver

\* the key of the driver document with this _id / this user_id (0: no match)
DriverKeyById(id) ==
    IF \E d \in DriverUsers : drivers[d]._id = id
    THEN CHOOSE d \in DriverUsers : drivers[d]._id = id
    ELSE 0

DriverKeyByUser(uid) ==
    IF \E d \in DriverUsers : drivers[d].user_id = uid
    THEN CHOOSE d \in DriverUsers : drivers[d].user_id = uid
    ELSE 0

RiderKeyByUser(uid) ==
    IF \E r \in DOMAIN riders : riders[r].user_id = uid
    THEN CHOOSE r \in DOMAIN riders : riders[r].user_id = uid
    ELSE 0

\* room left in the rides collection for the inserts already under way
RECURSIVE CopiesOf(_)
CopiesOf(S) ==
    IF S = {} THEN 0
    ELSE LET c == CHOOSE x \in S : TRUE
         IN  CopiesIn(c, calls) + CopiesOf(S \ {c})

InsertsInFlight == CopiesOf({c \in InFlight : c.pc = "insert"})

\* fewer than n rides exist or are about to be inserted
RoomFor(n) == Len(rides) + InsertsInFlight < n

CanInsert == RoomFor(MaxRides)

\* the ObjectId insert_one generates
NextRideId == [t |-> "oid", v |-> Len(rides) + 1]

\* riders of the model are picked up at kilometre 0 of one road; positions on
\* it are kept in metres
PickupKm == 0

(* ---------------------------------------------------------------------- *)
(* Fares, in cents; distances in whole kilometres                          *)
(* ---------------------------------------------------------------------- *)
\* the one trip the riders of the model ask for
TripKm == 2

\* app/api/rides.py calculate_fare: base + distance * rate, unknown types
\* fall back to the standard tariff
AppCalculateFare(distance_km, ride_type) ==
    LET base == CASE ride_type = "premium" -> 500
                  [] ride_type = "luxury" -> 800
                  [] OTHER -> 300
        rate == CASE ride_type = "premium" -> 250
                  [] ride_type = "luxury" -> 400
                  [] OTHER -> 150
    IN  base + distance_km * rate

(* ---------------------------------------------------------------------- *)
(* Initial state: the profiles exist, nobody is online, there are no rides *)
(* ---------------------------------------------------------------------- *)
\* vehicle_info.type given at registration
VehicleType(d) == IF d = 201 THEN "sedan" ELSE "suv"

\* the app stores ObjectId(user_id) in its profiles, the legacy code the string
UserRef(dep, u) == IF dep = "app" THEN ObjectId(Identity(u)) ELSE Identity(u)

InitDrivers(dep) ==
    [d \in DriverUsers |->
        [_id |-> DriverDocId(d), user_id |-> UserRef(dep, d), is_online |-> FALSE,
         current_ride_id |-> None, current_location |-> None,
         vehicle_type |-> VehicleType(d), total_rides |-> 0, earnings |-> 0,
         socket_id |-> Absent]]

\* rider profiles are written at registration by the legacy code only: the
\* riders collection of the app is empty
InitRiders(dep) ==
    [r \in IF dep = "app" THEN {} ELSE RiderUsers |->
        [user_id |-> UserRef(dep, r), current_ride_id |-> Absent, total_rides |-> 0,
         current_location |-> None]]

\* the entry handle_connect stores for a session that presented token
client_info(token) ==
    [user_id |-> decode_token(token).sub,
     user_type |-> decode_token(token).user_type]

NoClient == [user_id |-> None, user_type |-> "none"]

\* connected_clients[sid] of a session that has an entry
registered(sid) ==
    IF sid \in DOMAIN connected_clients THEN connected_clients[sid] ELSE NoClient

\* clients: the users whose client has connected its socket with its token
InitSockets(clients) ==
    /\ connected_clients =
         [s \in {Sid(u) : u \in clients} |-> client_info(TokenOf(s.v))]
    /\ sessions =
         [s \in {Sid(u) : u \in Users} |->
            IF s.v \in clients
            THEN [token |-> TokenOf(s.v), connected |-> TRUE,
                  rooms |-> {UserRoom(Identity(s.v))}]
            ELSE NoSession]

InitWith(dep, clients) ==
    /\ deployment = dep
    /\ rides = << >>
    /\ drivers = InitDrivers(dep)
    /\ riders = InitRiders(dep)
    /\ calls = EmptyBag
    /\ payments = {}
    /\ events = {}
    /\ quote = NoQuote
    /\ InitSockets(clients)

\* no socket is connected
InitIn(dep) == InitWith(dep, {})

Init == \E dep \in {"app", "legacy"} : InitIn(dep)

\* every user's client has connected its socket
InitConnected == \E dep \in {"app", "legacy"} : InitWith(dep, Users)

(* ---------------------------------------------------------------------- *)
(* app/api/rides.py                                                        *)
(* ---------------------------------------------------------------------- *)
AppActive == {"requested", "accepted", "in_progress"}

\* the check of request_ride, as the status it answers: 409 when find_one
\* returns an active ride of the rider, 201 after the insert otherwise
request_ride_checks(u) ==
    LET active_ride == \E i \in DOMAIN rides :
                          /\ rides[i].rider_id = ObjectId(Identity(u))
                          /\ rides[i].status \in AppActive
    IN  IF active_ride THEN 409 ELSE 201

\* a rider's place on the road, in metres, as the latitude it stands for:
\* one degree is 111195 m (R = 6371 km)
Latitude(location) == location.v \div 111195

\* the body of a ride request: pickup and destination are places on the
\* road or Absent, ride_type is a name or Absent
RideData(pickup, destination, ride_type) ==
    [pickup |-> pickup, destination |-> destination, ride_type |-> ride_type]

\* a place no latitude stands for
OffTheMap == Num(91 * 111195)

\* the request of the app's client: pickup and destination of the trip, the
\* default ride class
StandardRequests ==
    [u \in RiderUsers |->
       {RideData(Num(PickupKm * 1000), Num((PickupKm + TripKm) * 1000),
                 [t |-> "str", v |-> "standard"])}]

\* requests with a field missing, a place off the map or a ride class the
\* fare table does not have, and the well-formed one
AnyAppRequests ==
    [u \in RiderUsers |->
    StandardRequests[u] \cup
    {RideData(Absent, Num(TripKm * 1000), [t |-> "str", v |-> "standard"]),
     RideData(Num(PickupKm * 1000), Absent, [t |-> "str", v |-> "standard"]),
     RideData(OffTheMap, Num(TripKm * 1000), [t |-> "str", v |-> "standard"]),
     RideData(Num(PickupKm * 1000), Num(TripKm * 1000),
              [t |-> "str", v |-> "helicopter"]),
     RideData(Num(PickupKm * 1000), Num(TripKm * 1000), Absent)}]

\* the required-fields loop of request_ride, as the status it leads to: 400
\* when a pickup or destination field is not in the body
request_ride_validation(data) ==
    IF data.pickup = Absent \/ data.destination = Absent THEN 400 ELSE 201

\* POST /rides/request
request_ride(requests) ==
    \/ \* the required fields: 400; then find_one: does the rider have an
       \* active ride?  409 if so
       \E c \in Slots :
       /\ deployment = "app" /\ Free(c) /\ CanInsert
       /\ \E u \in RiderUsers :
            \E data \in requests[u] :
                calls' = Put(c,
                    IF request_ride_validation(data) # 201 THEN IdleCall
                    ELSE IF request_ride_checks(u) # 201 THEN IdleCall
                    ELSE [Enter("request_ride", Identity(u), None)
                            EXCEPT !.ride_type = IF data.ride_type = Absent
                                                 THEN "standard"
                                                 ELSE data.ride_type.v,
                                   !.location = data.pickup,
                                   !.pc = "insert"])
       /\ UNCHANGED <<quote, events, deployment, connected_clients, sessions, payments, rides, drivers, riders>>
    \/ \* insert_one, 201
       \E c \in Slots :
       /\ At(c, "request_ride", "insert")
       /\ rides' = Append(rides,
            [_id |-> NextRideId, rider_id |-> ObjectId(c.user),
             driver_id |-> None, status |-> "requested",
             ride_type |-> c.ride_type,
             estimated_fare |-> Num(AppCalculateFare(TripKm, c.ride_type)),
             final_fare |-> Absent, cancelled_by |-> Absent,
             pickup_location |-> c.location])
       /\ calls' = Return(c)
       /\ UNCHANGED <<quote, events, deployment, connected_clients, sessions, payments, drivers, riders>>

\* POST /rides/<ride_id>/accept
accept_ride ==
    \/ \* find the driver profile: 404, or 409 for an offline or bound driver
       \E c \in Slots :
       /\ deployment = "app" /\ Free(c)
       /\ \E u \in DriverUsers, rid \in WireRideIds :
            LET driver == FindDriverByUser(ObjectId(Identity(u)))
            IN  calls' = Put(c,
                    IF driver = NoDriver THEN IdleCall
                    ELSE IF ~driver.is_online \/ Truthy(driver.current_ride_id)
                         THEN IdleCall
                    ELSE [Enter("accept_ride", Identity(u), rid)
                            EXCEPT !.driver_id = driver._id, !.pc = "find_ride"])
       /\ UNCHANGED <<quote, events, deployment, connected_clients, sessions, payments, rides, drivers, riders>>
    \/ \* find the ride: 404, or 409 when it is not requested
       \E c \in Slots :
       /\ At(c, "accept_ride", "find_ride")
       /\ LET ride == FindRide(ObjectId(c.ride_id))
          IN  calls' = IF ride = NoRide \/ ride.status # "requested"
                       THEN Return(c)
                       ELSE Put(c, [c EXCEPT !.pc = "update_ride"])
       /\ UNCHANGED <<quote, events, deployment, connected_clients, sessions, payments, rides, drivers, riders>>
    \/ \* update_one({'_id': ride_id, 'status': 'requested'}, ...): 409 if unmatched
       \E c \in Slots :
       /\ At(c, "accept_ride", "update_ride")
       /\ LET ride == FindRide(ObjectId(c.ride_id))
          IN  IF ride # NoRide /\ ride.status = "requested"
              THEN /\ rides' = [rides EXCEPT ![RideIndex(ride._id)] =
                                  [@ EXCEPT !.driver_id = c.driver_id,
                                            !.status = "accepted"]]
                   /\ calls' = Put(c, [c EXCEPT !.pc = "update_driver"])
              ELSE /\ calls' = Return(c)
                   /\ UNCHANGED rides
       /\ UNCHANGED <<quote, events, deployment, connected_clients, sessions, payments, drivers, riders>>
    \/ \* update_one on the driver: current_ride_id, then 200
       \E c \in Slots :
       /\ At(c, "accept_ride", "update_driver")
       /\ drivers' = [drivers EXCEPT ![DriverKeyById(c.driver_id)]
                        .current_ride_id = ObjectId(c.ride_id)]
       /\ calls' = Return(c)
       /\ UNCHANGED <<quote, events, deployment, connected_clients, sessions, payments, rides, riders>>

\* the filter of start_ride's update: the ride, of this driver, accepted;
\* 404 when the driver has no profile or the update modified nothing
start_ride_checks(u, rid) ==
    LET driver == FindDriverByUser(ObjectId(Identity(u)))
        ride == FindRide(ObjectId(rid))
    IN  IF driver = NoDriver THEN 404
        ELSE IF \/ ride = NoRide
                \/ ride.driver_id # driver._id
                \/ ride.status # "accepted"
             THEN 404
        ELSE 200

\* POST /rides/<ride_id>/start
\* (the driver lookup only yields the immutable _id used in the filter)
start_ride ==
    \E c \in Slots :
    /\ deployment = "app" /\ Free(c)
    /\ \E u \in DriverUsers, rid \in WireRideIds :
         LET driver == FindDriverByUser(ObjectId(Identity(u)))
             ride == FindRide(ObjectId(rid))
         IN  IF start_ride_checks(u, rid) = 200
             THEN /\ rides' = [rides EXCEPT ![RideIndex(ride._id)].status = "in_progress"]
             ELSE UNCHANGED <<rides>>    \* 404
    /\ UNCHANGED <<quote, events, deployment, connected_clients, sessions, payments, drivers, riders, calls>>

\* the final_fare a driver may post with the completion
FareOverrides == {Absent}

\* a completion that also unbinds the ride from its driver
CompletedUnbound(ride, final_fare) ==
    [ride EXCEPT !.status = "completed", !.final_fare = final_fare,
                 !.driver_id = None]

\* the $set of complete_ride: status and final_fare; driver_id stays
Completed(ride, final_fare) ==
    [ride EXCEPT !.status = "completed", !.final_fare = final_fare]

\* the reads of complete_ride: the driver profile, then the ride of that
\* driver that is in progress; 404 without either
complete_ride_checks(u, rid) ==
    LET driver == FindDriverByUser(ObjectId(Identity(u)))
        ride == FindRide(ObjectId(rid))
    IN  IF driver = NoDriver THEN 404
        ELSE IF \/ ride = NoRide
                \/ ride.driver_id # driver._id
                \/ ride.status # "in_progress"
             THEN 404
        ELSE 200

\* POST /rides/<ride_id>/complete
complete_ride ==
    \/ \* find the driver, then the ride of that driver that is in progress: 404
       \E c \in Slots :
       /\ deployment = "app" /\ Free(c)
       /\ \E u \in DriverUsers, rid \in WireRideIds, fare \in FareOverrides :
            LET driver == FindDriverByUser(ObjectId(Identity(u)))
                ride == FindRide(ObjectId(rid))
            IN  calls' = Put(c,
                    IF complete_ride_checks(u, rid) # 200
                    THEN IdleCall
                    ELSE [Enter("complete_ride", Identity(u), rid)
                            EXCEPT !.driver_id = driver._id,
                                   !.rider_id = ride.rider_id,
                                   !.final_fare = IF fare = Absent
                                                  THEN ride.estimated_fare
                                                  ELSE fare,
                                   !.pc = "update_ride"])
       /\ UNCHANGED <<quote, events, deployment, connected_clients, sessions, payments, rides, drivers, riders>>
    \/ \* update_one({'_id': ride_id}, ...): whatever the ride's status is now
       \E c \in Slots :
       /\ At(c, "complete_ride", "update_ride")
       /\ rides' = [rides EXCEPT ![RideIndex(ObjectId(c.ride_id))] =
                      Completed(@, c.final_fare)]
       /\ calls' = Put(c, [c EXCEPT !.pc = "update_driver"])
       /\ UNCHANGED <<quote, events, deployment, connected_clients, sessions, payments, drivers, riders>>
    \/ \* release the driver and count the ride
       \E c \in Slots :
       /\ At(c, "complete_ride", "update_driver")
       /\ drivers' = [drivers EXCEPT ![DriverKeyById(c.driver_id)] =
                        [@ EXCEPT !.current_ride_id = None,
                                  !.total_rides = @ + 1,
                                  !.earnings = @ + c.final_fare.v]]
       /\ calls' = Put(c, [c EXCEPT !.pc = "update_rider"])
       /\ UNCHANGED <<quote, events, deployment, connected_clients, sessions, payments, rides, riders>>
    \/ \* rider statistics, then 200
       \E c \in Slots :
       /\ At(c, "complete_ride", "update_rider")
       /\ LET r == RiderKeyByUser(c.rider_id)
          IN  riders' = IF r = 0 THEN riders
                        ELSE [riders EXCEPT ![r].total_rides = @ + 1]
       /\ calls' = Return(c)
       /\ UNCHANGED <<quote, events, deployment, connected_clients, sessions, payments, rides, drivers>>

\* cancel_ride with the status test narrowed to cancelled rides
cancel_ride_checks_cancelled_only(u, rid) ==
    LET ride == FindRide(ObjectId(rid))
        user_can_cancel ==
            \/ str(ride.rider_id) = Identity(u)
            \/ (Truthy(get(ride.driver_id)) /\ str(ride.driver_id) = Identity(u))
    IN  IF ride = NoRide THEN 404
        ELSE IF ~user_can_cancel THEN 403
        ELSE IF ride.status \in {"cancelled"} THEN 409
        ELSE 200

\* the checks of cancel_ride on the ride it reads, as the status it answers:
\* 404 no such ride, 403 the caller is neither str(rider_id) nor
\* str(driver_id), 409 the ride is over, 200 the handler goes on to its writes
cancel_ride_checks(u, rid) ==
    LET ride == FindRide(ObjectId(rid))
        user_can_cancel ==
            \/ str(ride.rider_id) = Identity(u)
            \/ (Truthy(get(ride.driver_id)) /\ str(ride.driver_id) = Identity(u))
    IN  IF ride = NoRide THEN 404
        ELSE IF ~user_can_cancel THEN 403
        ELSE IF ride.status \in {"completed", "cancelled"} THEN 409
        ELSE 200

\* POST /rides/<ride_id>/cancel
cancel_ride ==
    \/ \* find the ride (404), check the caller (403) and the status (409)
       \E c \in Slots :
       /\ deployment = "app" /\ Free(c)
       /\ \E u \in Users, rid \in WireRideIds :
            LET ride == FindRide(ObjectId(rid))
            IN  calls' = Put(c,
                    IF cancel_ride_checks(u, rid) # 200
                    THEN IdleCall
                    ELSE [Enter("cancel_ride", Identity(u), rid)
                            EXCEPT !.ride_driver_id = get(ride.driver_id),
                                   !.pc = "update_ride"])
       /\ UNCHANGED <<quote, events, deployment, connected_clients, sessions, payments, rides, drivers, riders>>
    \/ \* update_one({'_id': ride_id}, ...): whatever the ride's status is now
       \E c \in Slots :
       /\ At(c, "cancel_ride", "update_ride")
       /\ rides' = [rides EXCEPT ![RideIndex(ObjectId(c.ride_id))] =
                      [@ EXCEPT !.status = "cancelled",
                                !.cancelled_by = c.user]]
       /\ IF Truthy(c.ride_driver_id)
          THEN /\ calls' = Put(c, [c EXCEPT !.pc = "update_driver"])
          ELSE /\ calls' = Return(c)
       /\ UNCHANGED <<quote, events, deployment, connected_clients, sessions, payments, drivers, riders>>
    \/ \* free the driver the ride had when it was read, then 200
       \E c \in Slots :
       /\ At(c, "cancel_ride", "update_driver")
       /\ LET d == DriverKeyById(c.ride_driver_id)
          IN  drivers' = IF d = 0 THEN drivers
                         ELSE [drivers EXCEPT ![d].current_ride_id = None]
       /\ calls' = Return(c)
       /\ UNCHANGED <<quote, events, deployment, connected_clients, sessions, payments, rides, riders>>

(* ---------------------------------------------------------------------- *)
(* app/api/drivers.py                                                      *)
(* ---------------------------------------------------------------------- *)
\* POST /drivers/online (the profile exists; the update is keyed by its _id)
go_online ==
    \E c \in Slots :
    /\ deployment = "app" /\ Free(c)
    /\ \E u \in DriverUsers :
         LET d == DriverKeyByUser(ObjectId(Identity(u)))
         IN  /\ d # 0
             /\ drivers' = [drivers EXCEPT ![d].is_online = TRUE]
    /\ UNCHANGED <<quote, events, deployment, connected_clients, sessions, payments, rides, riders, calls>>

\* POST /drivers/offline
go_offline ==
    \/ \* find the driver (404), refuse while a ride is bound (409)
       \E c \in Slots :
       /\ deployment = "app" /\ Free(c)
       /\ \E u \in DriverUsers :
            LET driver == FindDriverByUser(ObjectId(Identity(u)))
            IN  calls' = Put(c,
                    IF driver = NoDriver \/ Truthy(driver.current_ride_id)
                    THEN IdleCall
                    ELSE [Enter("go_offline", Identity(u), None)
                            EXCEPT !.driver_id = driver._id, !.pc = "update_driver"])
       /\ UNCHANGED <<quote, events, deployment, connected_clients, sessions, payments, rides, drivers, riders>>
    \/ \E c \in Slots :
       /\ At(c, "go_offline", "update_driver")
       /\ drivers' = [drivers EXCEPT ![DriverKeyById(c.driver_id)]
                        .is_online = FALSE]
       /\ calls' = Return(c)
       /\ UNCHANGED <<quote, events, deployment, connected_clients, sessions, payments, rides, riders>>

NextApp ==
    \/ request_ride(StandardRequests)
    \/ accept_ride
    \/ start_ride
    \/ complete_ride
    \/ cancel_ride
    \/ go_online
    \/ go_offline

SpecApp == InitIn("app") /\ [][NextApp]_vars

(* ---------------------------------------------------------------------- *)
(* services/matching.py and the fare helpers of the legacy deployment      *)
(* ---------------------------------------------------------------------- *)
\* where a driver may report to be, in metres along the road of the model
DriverLocs == {1000}

\* the same with a place beyond the search radius
DispatchLocs == {1000, 12000}

\* find_nearest_driver(..., max_distance_km=10)
max_distance_km == 10

\* utils/security.py calculate_distance, on the road of the model, in metres
calculate_distance(a, b) == IF a >= b THEN a - b ELSE b - a

is_vehicle_compatible(vehicle_type, ride_type) ==
    vehicle_type \in
        CASE ride_type = "economy" -> {"sedan", "hatchback", "compact"}
          [] ride_type = "comfort" -> {"sedan", "suv", "luxury"}
          [] ride_type = "premium" -> {"luxury", "suv"}
          [] ride_type = "xl" -> {"xl", "suv", "van"}
          [] OTHER -> {}

\* the query without its $maxDistance
available_drivers_anywhere(pickup) ==
    {d \in DriverUsers :
        /\ drivers[d].is_online
        /\ drivers[d].current_ride_id = None
        /\ drivers[d].current_location # None}

\* the query of find_nearest_driver: online, unbound, within $maxDistance
available_drivers(pickup) ==
    {d \in DriverUsers :
        /\ drivers[d].is_online
        /\ drivers[d].current_ride_id = None
        /\ drivers[d].current_location # None
        /\ calculate_distance(pickup, drivers[d].current_location.v) <= max_distance_km * 1000}

filter_drivers_by_ride_type(ds, ride_type) ==
    {d \in ds : is_vehicle_compatible(drivers[d].vehicle_type, ride_type)}

\* every driver that is online, whatever it drives and wherever it is
find_online_drivers(pickup_location, ride_type, limit) ==
    {d \in DriverUsers : drivers[d].is_online}

\* find_nearest_drivers: the first limit documents of the $near query, then
\* the vehicle filter (drivers at the same distance as the last one the
\* limit lets through are let through as well)
find_nearest_drivers(pickup_location, ride_type, limit) ==
    LET found == available_drivers(pickup_location)
        away(d) == calculate_distance(pickup_location, drivers[d].current_location.v)
        first == {d \in found :
                    Cardinality({e \in found : away(e) < away(d)}) < limit}
    IN  filter_drivers_by_ride_type(first, ride_type)

\* find_closest_driver: each distance is scaled by a factor drawn from
\* [0.9, 1.1) and the first strict minimum in cursor order wins, so d can win
\* iff 0.9 * its distance can fall below 1.1 * every other distance
find_closest_driver(ds, pickup) ==
    LET dist(d) == calculate_distance(pickup, drivers[d].current_location.v)
        before(d, e) == dist(d) < dist(e) \/ (dist(d) = dist(e) /\ d < e)
    IN  {d \in ds : \A e \in ds \ {d} :
            \/ 9 * dist(d) < 11 * dist(e)
            \/ (dist(d) = 0 /\ dist(e) = 0 /\ before(d, e))}

\* the drivers find_nearest_driver may return; empty: it returns None
find_nearest_driver(pickup, ride_type) ==
    find_closest_driver(
        filter_drivers_by_ride_type(available_drivers(pickup), ride_type), pickup)

\* round(x, 2) of the amount n / d cents: the nearest cent, a half to the even
round_to_cents(n, d) ==
    LET q == n \div d
        r == n % d
    IN  IF 2 * r > d \/ (2 * r = d /\ q % 2 = 1) THEN q + 1 ELSE q

\* utils/security.py estimate_ride_fare, multiplier in tenths
estimate_ride_fare(distance_km, ride_type) ==
    LET multiplier == CASE ride_type = "comfort" -> 13
                        [] ride_type = "premium" -> 18
                        [] ride_type = "xl" -> 20
                        [] OTHER -> 10
    IN  round_to_cents((250 + distance_km * 150) * multiplier, 10)

\* the tariff tables of services/pricing.py, in cents, with their defaults
base_fares(ride_type) ==
    CASE ride_type = "comfort" -> 300
      [] ride_type = "premium" -> 450
      [] ride_type = "xl" -> 500
      [] OTHER -> 250

per_km_rates(ride_type) ==
    CASE ride_type = "comfort" -> 180
      [] ride_type = "premium" -> 250
      [] ride_type = "xl" -> 280
      [] OTHER -> 150

per_minute_rates(ride_type) ==
    CASE ride_type = "comfort" -> 20
      [] ride_type = "premium" -> 30
      [] ride_type = "xl" -> 35
      [] OTHER -> 15

min_fares(ride_type) ==
    CASE ride_type = "comfort" -> 600
      [] ride_type = "premium" -> 800
      [] ride_type = "xl" -> 1000
      [] OTHER -> 500

\* a surge multiplier whose increments compound
compounding_surge_multiplier(current_hour, weekday) ==
    LET is_peak_hour == (7 <= current_hour /\ current_hour <= 9)
                            \/ (17 <= current_hour /\ current_hour <= 19)
        is_weekend == weekday >= 5
    IN  ((IF is_peak_hour THEN 120 ELSE 100) * (IF is_weekend THEN 110 ELSE 100))
            \div 100

\* get_surge_multiplier, in hundredths, from the hour and the weekday that
\* datetime.utcnow() gives it
get_surge_multiplier(current_hour, weekday) ==
    LET is_peak_hour == (7 <= current_hour /\ current_hour <= 9)
                            \/ (17 <= current_hour /\ current_hour <= 19)
        is_weekend == weekday >= 5
    IN  100 + (IF is_peak_hour THEN 20 ELSE 0) + (IF is_weekend THEN 10 ELSE 0)

\* the rides of the model are asked for and driven at noon on a Wednesday
Surges == {get_surge_multiplier(12, 2)}

Max(a, b) == IF a >= b THEN a ELSE b

\* services/pricing.py calculate_fare on a ride document: the time component
\* is added only when the document has both started_at and completed_at
\* (minutes on the clock); the surge multiplies the sum, the discount is 0,
\* and the minimum fare bounds the result
calculate_fare(ride_data, surge) ==
    LET ride_type == ride_data.ride_type
        time_fare == IF ride_data.started_at # Absent /\ ride_data.completed_at # Absent
                     THEN (ride_data.completed_at.v - ride_data.started_at.v)
                              * per_minute_rates(ride_type)
                     ELSE 0
        distance_fare == ride_data.distance_km * per_km_rates(ride_type)
        total_fare == (base_fares(ride_type) + distance_fare + time_fare) * surge
    IN  round_to_cents(Max(total_fare, min_fares(ride_type) * 100), 100)

\* services/pricing.py estimate_fare: no minimum fare on this path
estimate_fare(distance_km, ride_type, passengers, surge) ==
    LET estimated_fare == base_fares(ride_type) + distance_km * per_km_rates(ride_type)
        passenger_multiplier == IF ride_type = "xl" /\ passengers > 1
                                THEN 10 + (passengers - 1)
                                ELSE 10
    IN  round_to_cents(estimated_fare * passenger_multiplier * surge, 1000)

\* the ride document complete_ride reads: started, not yet completed
StartedRide(ride) ==
    [ride_type |-> ride.ride_type, distance_km |-> TripKm,
     started_at |-> Num(0), completed_at |-> Absent]

\* the ride class each rider of the model asks for
RideTypeOf(u) == IF u = 101 THEN "comfort" ELSE "economy"

(* ---------------------------------------------------------------------- *)
(* api/rides.py (legacy deployment): ids are kept as strings               *)
(* ---------------------------------------------------------------------- *)
LegacyActive == {"requested", "accepted", "enroute", "started"}

\* the check of the legacy request_ride, as the status it answers: 400 when
\* find_one returns an active ride of the rider
legacy_request_ride_checks(u) ==
    LET active_ride == \E i \in DOMAIN rides :
                          /\ rides[i].rider_id = Identity(u)
                          /\ rides[i].status \in LegacyActive
    IN  IF active_ride THEN 400 ELSE 201

\* utils/security.py: a dict with lat and lng, the latitude within -90..90
validate_location(location) ==
    /\ location.t = "num"
    /\ -90 <= Latitude(location) /\ Latitude(location) <= 90

\* utils/security.py: the three fields, both places, the ride class
validate_ride_data(ride_data) ==
    /\ ride_data.pickup # Absent
    /\ ride_data.destination # Absent
    /\ ride_data.ride_type # Absent
    /\ validate_location(ride_data.pickup)
    /\ validate_location(ride_data.destination)
    /\ ride_data.ride_type.v \in {"economy", "comfort", "premium", "xl"}

\* the request of the legacy client: pickup and destination of the trip, the
\* ride class of the rider
AskedRequests ==
    [u \in RiderUsers |->
       {RideData(Num(PickupKm * 1000), Num((PickupKm + TripKm) * 1000),
                 [t |-> "str", v |-> RideTypeOf(u)])}]

\* requests with a field missing, a place off the map or an unknown ride
\* class, and the well-formed one
AnyRequests ==
    [u \in RiderUsers |->
    AskedRequests[u] \cup
    {RideData(Absent, Num(TripKm * 1000), [t |-> "str", v |-> RideTypeOf(u)]),
     RideData(Num(PickupKm * 1000), Absent, [t |-> "str", v |-> RideTypeOf(u)]),
     RideData(OffTheMap, Num(TripKm * 1000), [t |-> "str", v |-> RideTypeOf(u)]),
     RideData(Num(PickupKm * 1000), OffTheMap, [t |-> "str", v |-> RideTypeOf(u)]),
     RideData(Num(PickupKm * 1000), Num(TripKm * 1000),
              [t |-> "str", v |-> "helicopter"]),
     RideData(Num(PickupKm * 1000), Num(TripKm * 1000), Absent)}]

\* POST /api/rides/request: insert, then push the ride to the nearest driver
\* (max_rides: the rides the workload asks for in all)
legacy_request_ride(max_rides, requests) ==
    \/ \* validate_ride_data: 400; then find_one: does the rider have an active
       \* ride?  400 if so
       \E c \in Slots :
       /\ deployment = "legacy" /\ Free(c) /\ RoomFor(max_rides)
       /\ \E u \in RiderUsers :
            \E data \in requests[u] :
                calls' = Put(c,
                    IF ~validate_ride_data(data) THEN IdleCall
                    ELSE IF legacy_request_ride_checks(u) # 201 THEN IdleCall
                    ELSE [Enter("legacy_request_ride", Identity(u), None)
                            EXCEPT !.ride_type = data.ride_type.v,
                                   !.location = data.pickup,
                                   !.pc = "insert"])
       /\ UNCHANGED <<quote, events, deployment, connected_clients, sessions, payments, rides, drivers, riders>>
    \/ \* insert_one: the document has no driver_id key
       \E c \in Slots :
       /\ At(c, "legacy_request_ride", "insert")
       /\ rides' = Append(rides,
            [_id |-> NextRideId, rider_id |-> c.user,
             driver_id |-> Absent, status |-> "requested",
             ride_type |-> c.ride_type,
             estimated_fare |-> Num(estimate_ride_fare(TripKm, c.ride_type)),
             final_fare |-> Absent, cancelled_by |-> Absent,
             pickup_location |-> c.location])
       /\ calls' = Put(c, [c EXCEPT !.ride_id = str(NextRideId),
                                 !.pc = "find_nearest_driver"])
       /\ UNCHANGED <<quote, events, deployment, connected_clients, sessions, payments, drivers, riders>>
    \/ \* find_nearest_driver: nobody near, 201 with the ride left requested
       \E c \in Slots :
       /\ At(c, "legacy_request_ride", "find_nearest_driver")
       /\ find_nearest_driver(c.location.v, c.ride_type) = {}
       /\ calls' = Return(c)
       /\ UNCHANGED <<quote, events, deployment, connected_clients, sessions, payments, rides, drivers, riders>>
    \/ \* find_nearest_driver returned a driver document
       \E c \in Slots :
       /\ At(c, "legacy_request_ride", "find_nearest_driver")
       /\ \E d \in find_nearest_driver(c.location.v, c.ride_type) :
            calls' = Put(c, [c EXCEPT !.driver_id = str(drivers[d]._id),
                                   !.pc = "assign"])
       /\ UNCHANGED <<quote, events, deployment, connected_clients, sessions, payments, rides, drivers, riders>>
    \/ \* update_one on the ride only: driver_id = str(driver['_id']), accepted.
       \* Building the rider's notification then reads driver["first_name"],
       \* a key no driver document has: the handler answers 500
       \E c \in Slots :
       /\ At(c, "legacy_request_ride", "assign")
       /\ rides' = [rides EXCEPT ![RideIndex(ObjectId(c.ride_id))] =
                      [@ EXCEPT !.driver_id = c.driver_id,
                                !.status = "accepted"]]
       /\ calls' = Return(c)
       /\ UNCHANGED <<quote, events, deployment, connected_clients, sessions, payments, drivers, riders>>

\* POST /api/rides/<ride_id>/accept
legacy_accept_ride ==
    \/ \* find the driver profile: 404, or 400 when a ride is bound to it
       \E c \in Slots :
       /\ deployment = "legacy" /\ Free(c)
       /\ \E u \in DriverUsers, rid \in WireRideIds :
            LET driver == FindDriverByUser(Identity(u))
            IN  calls' = Put(c,
                    IF driver = NoDriver \/ Truthy(get(driver.current_ride_id))
                    THEN IdleCall
                    ELSE [Enter("legacy_accept_ride", Identity(u), rid)
                            EXCEPT !.pc = "find_ride"])
       /\ UNCHANGED <<quote, events, deployment, connected_clients, sessions, payments, rides, drivers, riders>>
    \/ \* find the ride: 404, or 400 when it is not requested
       \E c \in Slots :
       /\ At(c, "legacy_accept_ride", "find_ride")
       /\ LET ride == FindRide(ObjectId(c.ride_id))
          IN  calls' = IF ride = NoRide \/ ride.status # "requested"
                       THEN Return(c)
                       ELSE Put(c, [c EXCEPT !.pc = "update_ride"])
       /\ UNCHANGED <<quote, events, deployment, connected_clients, sessions, payments, rides, drivers, riders>>
    \/ \* update_one({'_id': ObjectId(ride_id)}, ...): whatever its status is now
       \E c \in Slots :
       /\ At(c, "legacy_accept_ride", "update_ride")
       /\ rides' = [rides EXCEPT ![RideIndex(ObjectId(c.ride_id))] =
                      [@ EXCEPT !.driver_id = c.user,
                                !.status = "accepted"]]
       /\ calls' = Put(c, [c EXCEPT !.pc = "update_driver"])
       /\ UNCHANGED <<quote, events, deployment, connected_clients, sessions, payments, drivers, riders>>
    \/ \* bind the driver and take it offline, then 200
       \E c \in Slots :
       /\ At(c, "legacy_accept_ride", "update_driver")
       /\ drivers' = [drivers EXCEPT ![DriverKeyByUser(c.user)] =
                        [@ EXCEPT !.current_ride_id = c.ride_id,
                                  !.is_online = FALSE]]
       /\ calls' = Return(c)
       /\ UNCHANGED <<quote, events, deployment, connected_clients, sessions, payments, rides, riders>>

\* legacy start_ride with the driver test left out
\* a start that looks neither at the driver nor at the status of the ride
legacy_start_ride_checks_any_ride(u, rid) ==
    IF FindRide(ObjectId(rid)) = NoRide THEN 404 ELSE 200

legacy_start_ride_checks_any_driver(u, rid) ==
    LET ride == FindRide(ObjectId(rid))
    IN  IF ride = NoRide THEN 404
        ELSE IF ride.status # "accepted" THEN 400
        ELSE 200

\* the checks of the legacy start_ride, as the status it answers: 404 no such
\* ride, 500 the ride has no driver_id key, 403 another driver's ride, 400 the
\* ride is not accepted
legacy_start_ride_checks(u, rid) ==
    LET ride == FindRide(ObjectId(rid))
    IN  IF ride = NoRide THEN 404
        ELSE IF ride.driver_id = Absent THEN 500
        ELSE IF ride.driver_id # Identity(u) THEN 403
        ELSE IF ride.status # "accepted" THEN 400
        ELSE 200

\* POST /api/rides/<ride_id>/start: read, check, then an update keyed by _id
legacy_start_ride ==
    \/ \* find the ride: 404; not its driver: 403 (500 without the key);
       \* not accepted: 400
       \E c \in Slots :
       /\ deployment = "legacy" /\ Free(c)
       /\ \E u \in DriverUsers, rid \in WireRideIds :
            LET ride == FindRide(ObjectId(rid))
            IN  calls' = Put(c,
                    IF legacy_start_ride_checks(u, rid) # 200
                    THEN IdleCall
                    ELSE [Enter("legacy_start_ride", Identity(u), rid)
                            EXCEPT !.pc = "update_ride"])
       /\ UNCHANGED <<quote, events, deployment, connected_clients, sessions, payments, rides, drivers, riders>>
    \/ \* update_one({'_id': ObjectId(ride_id)}, ...), then 200
       \E c \in Slots :
       /\ At(c, "legacy_start_ride", "update_ride")
       /\ rides' = [rides EXCEPT ![RideIndex(ObjectId(c.ride_id))]
                      .status = "started"]
       /\ calls' = Return(c)
       /\ UNCHANGED <<quote, events, deployment, connected_clients, sessions, payments, drivers, riders>>

\* the checks of the legacy complete_ride, as the status it answers
legacy_complete_ride_checks(u, rid) ==
    LET ride == FindRide(ObjectId(rid))
    IN  IF ride = NoRide THEN 404
        ELSE IF ride.driver_id = Absent THEN 500
        ELSE IF ride.driver_id # Identity(u) THEN 403
        ELSE IF ride.status # "started" THEN 400
        ELSE 200

\* POST /api/rides/<ride_id>/complete
legacy_complete_ride ==
    \/ \* find the ride: 404; not its driver: 403; not started: 400;
       \* then calculate_fare on the document just read
       \E c \in Slots :
       /\ deployment = "legacy" /\ Free(c)
       /\ \E u \in DriverUsers, rid \in WireRideIds, surge \in Surges :
            LET ride == FindRide(ObjectId(rid))
            IN  calls' = Put(c,
                    IF legacy_complete_ride_checks(u, rid) # 200
                    THEN IdleCall
                    ELSE [Enter("legacy_complete_ride", Identity(u), rid)
                            EXCEPT !.rider_id = ride.rider_id,
                                   !.final_fare =
                                       Num(calculate_fare(StartedRide(ride), surge)),
                                   !.pc = "update_ride"])
       /\ UNCHANGED <<quote, events, deployment, connected_clients, sessions, payments, rides, drivers, riders>>
    \/ \* update_one({'_id': ObjectId(ride_id)}, ...): whatever its status is now
       \E c \in Slots :
       /\ At(c, "legacy_complete_ride", "update_ride")
       /\ rides' = [rides EXCEPT ![RideIndex(ObjectId(c.ride_id))] =
                      [@ EXCEPT !.status = "completed",
                                !.final_fare = c.final_fare]]
       /\ calls' = Put(c, [c EXCEPT !.pc = "update_driver"])
       /\ UNCHANGED <<quote, events, deployment, connected_clients, sessions, payments, drivers, riders>>
    \/ \* release the driver, put it back online and count the ride
       \E c \in Slots :
       /\ At(c, "legacy_complete_ride", "update_driver")
       /\ drivers' = [drivers EXCEPT ![DriverKeyByUser(c.user)] =
                        [@ EXCEPT !.current_ride_id = None,
                                  !.is_online = TRUE,
                                  !.total_rides = @ + 1,
                                  !.earnings = @ + c.final_fare.v]]
       /\ calls' = Put(c, [c EXCEPT !.pc = "update_rider"])
       /\ UNCHANGED <<quote, events, deployment, connected_clients, sessions, payments, rides, riders>>
    \/ \* rider statistics
       \E c \in Slots :
       /\ At(c, "legacy_complete_ride", "update_rider")
       /\ LET r == RiderKeyByUser(c.rider_id)
          IN  riders' = IF r = 0 THEN riders
                        ELSE [riders EXCEPT ![r].total_rides = @ + 1]
       /\ calls' = Put(c, [c EXCEPT !.pc = "insert_payment"])
       /\ UNCHANGED <<quote, events, deployment, connected_clients, sessions, payments, rides, drivers>>
    \/ \* payments.insert_one: ride_id is unique there, a second record raises
       \* and the handler answers 500; otherwise 200
       \E c \in Slots :
       /\ At(c, "legacy_complete_ride", "insert_payment")
       /\ IF c.ride_id.v \in payments
          THEN UNCHANGED <<payments>>
          ELSE /\ payments' = payments \cup {c.ride_id.v}
       /\ calls' = Return(c)
       /\ UNCHANGED <<quote, events, deployment, connected_clients, sessions, rides, drivers, riders>>

\* legacy cancel_ride with the test of the caller left out
legacy_cancel_ride_checks_anyone(u, rid) ==
    LET ride == FindRide(ObjectId(rid))
    IN  IF ride = NoRide THEN 404
        ELSE IF ride.status \in {"completed", "cancelled"} THEN 400
        ELSE 200

\* the checks of the legacy cancel_ride, as the status it answers
legacy_cancel_ride_checks(u, rid) ==
    LET ride == FindRide(ObjectId(rid))
    IN  IF ride = NoRide THEN 404
        ELSE IF ride.rider_id # Identity(u) /\ get(ride.driver_id) # Identity(u)
             THEN 403
        ELSE IF ride.status \in {"completed", "cancelled"} THEN 400
        ELSE 200

\* POST /api/rides/<ride_id>/cancel
legacy_cancel_ride ==
    \/ \* find the ride (404), check the caller (403) and the status (400)
       \E c \in Slots :
       /\ deployment = "legacy" /\ Free(c)
       /\ \E u \in Users, rid \in WireRideIds :
            LET ride == FindRide(ObjectId(rid))
            IN  calls' = Put(c,
                    IF legacy_cancel_ride_checks(u, rid) # 200
                    THEN IdleCall
                    ELSE [Enter("legacy_cancel_ride", Identity(u), rid)
                            EXCEPT !.ride_driver_id = get(ride.driver_id),
                                   !.pc = "update_ride"])
       /\ UNCHANGED <<quote, events, deployment, connected_clients, sessions, payments, rides, drivers, riders>>
    \/ \* update_one({'_id': ObjectId(ride_id)}, ...): whatever its status is now
       \E c \in Slots :
       /\ At(c, "legacy_cancel_ride", "update_ride")
       /\ rides' = [rides EXCEPT ![RideIndex(ObjectId(c.ride_id))] =
                      [@ EXCEPT !.status = "cancelled",
                                !.cancelled_by = c.user]]
       /\ IF Truthy(c.ride_driver_id)
          THEN /\ calls' = Put(c, [c EXCEPT !.pc = "update_driver"])
          ELSE /\ calls' = Return(c)
       /\ UNCHANGED <<quote, events, deployment, connected_clients, sessions, payments, drivers, riders>>
    \/ \* drivers.update_one({'user_id': ride['driver_id']}): free the driver the
       \* ride had when it was read and put it online, then 200
       \E c \in Slots :
       /\ At(c, "legacy_cancel_ride", "update_driver")
       /\ LET d == DriverKeyByUser(c.ride_driver_id)
          IN  drivers' = IF d = 0 THEN drivers
                         ELSE [drivers EXCEPT ![d] =
                                 [@ EXCEPT !.current_ride_id = None,
                                           !.is_online = TRUE]]
       /\ calls' = Return(c)
       /\ UNCHANGED <<quote, events, deployment, connected_clients, sessions, payments, rides, riders>>

(* ---------------------------------------------------------------------- *)
(* api/drivers.py (legacy deployment)                                      *)
(* ---------------------------------------------------------------------- *)
\* PUT /api/drivers/status
update_driver_status ==
    \/ \* going online is refused (400) while a ride of this driver is active
       \E c \in Slots :
       /\ deployment = "legacy" /\ Free(c)
       /\ \E u \in DriverUsers, new_status \in BOOLEAN :
            LET on_a_ride == \E i \in DOMAIN rides :
                                /\ rides[i].driver_id = Identity(u)
                                /\ rides[i].status \in {"accepted", "enroute", "started"}
            IN  calls' = Put(c,
                    IF new_status /\ on_a_ride THEN IdleCall
                    ELSE [Enter("update_driver_status", Identity(u), None)
                            EXCEPT !.pc = IF new_status THEN "set_online"
                                          ELSE "set_offline"])
       /\ UNCHANGED <<quote, events, deployment, connected_clients, sessions, payments, rides, drivers, riders>>
    \/ \* update_one({'user_id': ...}, {'$set': {'is_online': new_status}})
       \E c \in Slots :
       /\ c.op = "update_driver_status"
       /\ c.pc \in {"set_online", "set_offline"}
       /\ drivers' = [drivers EXCEPT ![DriverKeyByUser(c.user)]
                        .is_online = (c.pc = "set_online")]
       /\ calls' = Return(c)
       /\ UNCHANGED <<quote, events, deployment, connected_clients, sessions, payments, rides, riders>>

\* PUT /api/drivers/location
update_driver_location(locs) ==
    \E c \in Slots :
    /\ deployment = "legacy" /\ Free(c)
    /\ \E u \in DriverUsers, km \in locs :
         drivers' = [drivers EXCEPT ![DriverKeyByUser(Identity(u))] =
                       located(@, Num(km))]
    /\ UNCHANGED <<quote, events, deployment, connected_clients, sessions, payments, rides, riders, calls>>

(* ---------------------------------------------------------------------- *)
(* sockets/driver_socket.py and sockets/rider_socket.py.  The ride filters *)
(* of these handlers carry the ride_id of the payload, a string, and are   *)
(* matched against ObjectId _ids.                                          *)
(* ---------------------------------------------------------------------- *)
\* the ride a socket handler's filter {'_id': ride_id} matches: ride_id is the
\* string of the payload
socket_ride(rid) == FindRide(rid)

\* 'accept_ride': update_one({'_id': ride_id}, ...) and, when it modified a
\* ride, the driver write; otherwise an error event
handle_ride_acceptance ==
    \E c \in Slots :
    /\ deployment = "legacy" /\ Free(c)
    /\ \E u \in DriverUsers, rid \in WireRideIds :
         LET ride == socket_ride(rid)
             d == DriverKeyByUser(Identity(u))
         IN  IF ride # NoRide
             THEN /\ rides' = [rides EXCEPT ![RideIndex(rid)] =
                                 [@ EXCEPT !.driver_id = Identity(u),
                                           !.status = "accepted"]]
                  /\ drivers' = [drivers EXCEPT ![d] =
                                   [@ EXCEPT !.current_ride_id = rid,
                                             !.is_online = FALSE]]
             ELSE UNCHANGED <<rides, drivers>>
    /\ UNCHANGED <<quote, events, deployment, connected_clients, sessions, payments, riders, calls>>

\* 'start_ride'
handle_ride_start ==
    \E c \in Slots :
    /\ deployment = "legacy" /\ Free(c)
    /\ \E u \in DriverUsers, rid \in WireRideIds :
         LET ride == socket_ride(rid)
         IN  IF ride # NoRide
             THEN /\ rides' = [rides EXCEPT ![RideIndex(rid)].status = "started"]
             ELSE UNCHANGED <<rides>>
    /\ UNCHANGED <<quote, events, deployment, connected_clients, sessions, payments, drivers, riders, calls>>

\* 'complete_ride': no fare is computed or stored on this path
handle_ride_completion ==
    \E c \in Slots :
    /\ deployment = "legacy" /\ Free(c)
    /\ \E u \in DriverUsers, rid \in WireRideIds :
         LET ride == socket_ride(rid)
             d == DriverKeyByUser(Identity(u))
         IN  IF ride # NoRide
             THEN /\ rides' = [rides EXCEPT ![RideIndex(rid)].status = "completed"]
                  /\ drivers' = [drivers EXCEPT ![d] =
                                   [@ EXCEPT !.current_ride_id = None,
                                             !.is_online = TRUE]]
             ELSE UNCHANGED <<rides, drivers>>
    /\ UNCHANGED <<quote, events, deployment, connected_clients, sessions, payments, riders, calls>>

\* 'driver_status_update': sets is_online whatever the driver is doing
handle_status_update ==
    \E c \in Slots :
    /\ deployment = "legacy" /\ Free(c)
    /\ \E u \in DriverUsers, is_online \in BOOLEAN :
         drivers' = [drivers EXCEPT ![DriverKeyByUser(Identity(u))]
                       .is_online = is_online]
    /\ UNCHANGED <<quote, events, deployment, connected_clients, sessions, payments, rides, riders, calls>>

\* 'driver_connect': the profile named by the payload's driver_id gets the
\* session's sid; is_online is left as it is
handle_driver_connect ==
    \E c \in Slots :
    /\ deployment = "legacy" /\ Free(c)
    /\ \E u \in DriverUsers, driver_id \in DriverUsers :
         drivers' = [drivers EXCEPT ![DriverKeyByUser(Identity(driver_id))]
                       .socket_id = Sid(u)]
    /\ UNCHANGED <<quote, events, deployment, connected_clients, sessions, payments, rides, riders, calls>>

\* 'disconnect': find_one({'socket_id': request.sid}) and, for the profile
\* found, is_online False and socket_id None
driver_handle_disconnect ==
    \E c \in Slots :
    /\ deployment = "legacy" /\ Free(c)
    /\ \E u \in DriverUsers :
         LET found == {d \in DOMAIN drivers : drivers[d].socket_id = Sid(u)}
         IN  IF found # {}
             THEN LET driver == drivers[CHOOSE d \in found :
                                          \A o \in found : d <= o]
                  IN  drivers' = [drivers EXCEPT ![DriverKeyByUser(driver.user_id)] =
                                    [@ EXCEPT !.is_online = FALSE,
                                              !.socket_id = None]]
             ELSE UNCHANGED drivers
    /\ UNCHANGED <<quote, events, deployment, connected_clients, sessions, payments, rides, riders, calls>>

\* what the rider socket's request_ride sends back after its writes: the
\* payload of 'ride_requested' reads fare_estimate['estimated_time'], and
\* estimate_fare returns 'estimated_time_minutes': KeyError, so the except
\* clause emits 'error' ("Failed to request ride")
ride_request_reply == "error"

\* 'request_ride' of the rider socket: no look at the rider's other rides
\* (max_rides: the rides the workload asks for in all)
handle_ride_request(max_rides) ==
    \/ \* insert_one
       \E c \in Slots :
       /\ deployment = "legacy" /\ Free(c) /\ RoomFor(max_rides)
       /\ \E u \in RiderUsers, surge \in Surges :
            /\ rides' = Append(rides,
                 [_id |-> NextRideId, rider_id |-> Identity(u),
                  driver_id |-> Absent, status |-> "requested",
                  ride_type |-> RideTypeOf(u),
                  estimated_fare |-> Num(estimate_fare(TripKm, RideTypeOf(u), 1, surge)),
                  final_fare |-> Absent, cancelled_by |-> Absent,
             pickup_location |-> Num(PickupKm * 1000)])
            /\ calls' = Put(c,
                           [Enter("handle_ride_request", Identity(u), str(NextRideId))
                              EXCEPT !.ride_type = RideTypeOf(u),
                                     !.location = Num(PickupKm * 1000),
                                     !.pc = "update_rider"])
       /\ UNCHANGED <<quote, events, deployment, connected_clients, sessions, payments, drivers, riders>>
    \/ \* riders.update_one: current_ride_id
       \E c \in Slots :
       /\ At(c, "handle_ride_request", "update_rider")
       /\ riders' = [riders EXCEPT ![RiderKeyByUser(c.user)]
                       .current_ride_id = c.ride_id]
       /\ calls' = Put(c, [c EXCEPT !.pc = "find_nearest_drivers"])
       /\ UNCHANGED <<quote, events, deployment, connected_clients, sessions, payments, rides, drivers>>
    \/ \* find_nearest_drivers, and new_ride_request to the room of each driver
       \* found.  The confirmation then reads fare_estimate['estimated_time'],
       \* a key estimate_fare does not return: the rider gets an error event,
       \* the ride stays
       \E c \in Slots :
       /\ At(c, "handle_ride_request", "find_nearest_drivers")
       /\ events' = events \cup
            {Event("new_ride_request", d, d, c.ride_id) :
               d \in find_nearest_drivers(c.location.v, c.ride_type, 10)} \cup
            {Event(ride_request_reply, c.user.v, 0, c.ride_id)}
       /\ calls' = Return(c)
       /\ UNCHANGED <<quote, deployment, connected_clients, sessions, payments, rides, drivers, riders>>

\* 'cancel_ride' of the rider socket: find_one({'_id': ride_id, 'rider_id': ...}),
\* only requested and accepted rides, then the ride, rider and driver writes
handle_ride_cancellation ==
    \E c \in Slots :
    /\ deployment = "legacy" /\ Free(c)
    /\ \E u \in RiderUsers, rid \in WireRideIds :
         LET ride == socket_ride(rid)
             r == RiderKeyByUser(Identity(u))
             d == DriverKeyByUser(get(ride.driver_id))
         IN  IF /\ ride # NoRide
                /\ ride.rider_id = Identity(u)
                /\ ride.status \in {"requested", "accepted"}
             THEN /\ rides' = [rides EXCEPT ![RideIndex(rid)] =
                                 [@ EXCEPT !.status = "cancelled",
                                           !.cancelled_by = [t |-> "str", v |-> 0]]]
                  /\ riders' = [riders EXCEPT ![r].current_ride_id = Absent]
                  /\ drivers' = IF ride.status = "accepted" /\ d # 0
                                THEN [drivers EXCEPT ![d].current_ride_id = Absent]
                                ELSE drivers
             ELSE UNCHANGED <<rides, riders, drivers>>
    /\ UNCHANGED <<quote, events, deployment, connected_clients, sessions, payments, calls>>

\* the REST interface of the legacy deployment around LifecycleRides rides
NextLegacy ==
    \/ legacy_request_ride(LifecycleRides, AskedRequests)
    \/ legacy_accept_ride
    \/ legacy_start_ride
    \/ legacy_complete_ride
    \/ legacy_cancel_ride
    \/ update_driver_status
    \/ update_driver_location(DriverLocs)

SpecLegacy == InitIn("legacy") /\ [][NextLegacy]_vars

\* dispatch in the legacy deployment: MaxRides requests, the drivers coming
\* and going, cancellations
NextDispatch ==
    \/ legacy_request_ride(MaxRides, AskedRequests)
    \/ handle_ride_request(MaxRides)
    \/ legacy_cancel_ride
    \/ update_driver_status
    \/ update_driver_location(DispatchLocs)
    \/ handle_status_update

SpecDispatch == InitIn("legacy") /\ [][NextDispatch]_vars

\* the socket interface, with the REST handlers that take its rides further
NextSockets ==
    \/ handle_ride_request(LifecycleRides)
    \/ handle_ride_acceptance
    \/ handle_ride_start
    \/ handle_ride_completion
    \/ handle_status_update
    \/ handle_ride_cancellation
    \/ legacy_accept_ride
    \/ legacy_start_ride
    \/ legacy_complete_ride
    \/ legacy_cancel_ride

SpecSockets == InitIn("legacy") /\ [][NextSockets]_vars

\* no driver's socket has been registered yet
NoSocketYet == \A d \in DOMAIN drivers : drivers[d].socket_id = Absent

\* drivers that set their status, connect their socket afterwards and lose
\* it, around LifecycleRides rides asked on the socket and accepted or
\* cancelled on the REST interface
NextDisconnect ==
    \/ NoSocketYet /\ update_driver_status
    \/ handle_driver_connect
    \/ driver_handle_disconnect
    \/ handle_ride_request(LifecycleRides)
    \/ legacy_accept_ride
    \/ legacy_cancel_ride

SpecDisconnect == InitIn("legacy") /\ [][NextDisconnect]_vars

(* ---------------------------------------------------------------------- *)
(* GET /drivers/available-rides, in both deployments                      *)
(* ---------------------------------------------------------------------- *)
\* round(distance, 2) of a distance in km, on metres: the nearest multiple of
\* 10 m, counted in units of 10 m (no distance of the model ends in 5)
round2(m) == IF m % 10 >= 5 THEN m \div 10 + 1 ELSE m \div 10

\* list.sort(key=...) on entries [ride_id, key]: stable, ascending by key
RECURSIVE sort(_)
sort(s) ==
    IF s = << >> THEN << >>
    ELSE LET head == sort(SubSeq(s, 1, Len(s) - 1))
             x == s[Len(s)]
             n == Cardinality({k \in 1..Len(head) : head[k].key <= x.key})
         IN  SubSeq(head, 1, n) \o <<x>> \o SubSeq(head, n + 1, Len(head))

\* s[:n]
slice(s, n) == SubSeq(s, 1, IF Len(s) < n THEN Len(s) ELSE n)

\* list(reversed(s))
reversed(s) == [k \in 1..Len(s) |-> s[Len(s) + 1 - k]]

\* the checks of the app's get_available_rides, as the status it answers
get_available_rides_checks(u) ==
    LET driver == FindDriverByUser(ObjectId(Identity(u)))
    IN  IF driver = NoDriver THEN 404
        ELSE IF ~driver.is_online THEN 400
        ELSE IF Truthy(driver.current_ride_id) THEN 409
        ELSE IF driver.current_location = None THEN 400
        ELSE 200

\* the aggregate: requested rides whose driver_id is null or missing, oldest
\* first (every rider_id has its users document, so $unwind drops nothing)
available_rides ==
    SelectSeq(rides, LAMBDA ride : ride.status = "requested" /\ get(ride.driver_id) = None)

\* the rides within 10 km of driver_location, each with its rounded distance
nearby_rides(driver_location) ==
    LET distance(ride) == calculate_distance(driver_location.v, ride.pickup_location.v)
        near == SelectSeq(available_rides, LAMBDA ride : distance(ride) <= 10000)
    IN  [k \in 1..Len(near) |->
            [ride_id |-> str(near[k]._id), key |-> round2(distance(near[k]))]]

\* the page the app answers: sorted on distance_to_pickup_km, the first 5
get_available_rides_page(driver_location) ==
    slice(sort(nearby_rides(driver_location)), 5)

\* GET /drivers/available-rides
get_available_rides ==
    \/ \* find the driver: 404; offline or without location: 400; on a ride: 409
       \E c \in Slots :
       /\ deployment = "app" /\ Free(c)
       /\ \E u \in DriverUsers :
            LET driver == FindDriverByUser(ObjectId(Identity(u)))
            IN  calls' = Put(c,
                    IF get_available_rides_checks(u) # 200 THEN IdleCall
                    ELSE [Enter("get_available_rides", Identity(u), None)
                            EXCEPT !.location = driver.current_location,
                                   !.pc = "aggregate"])
       /\ UNCHANGED <<quote, events, deployment, connected_clients, sessions, payments, rides, drivers, riders>>
    \/ \* aggregate, filter, sort: 200 with get_available_rides_page(c.location)
       \E c \in Slots :
       /\ At(c, "get_available_rides", "aggregate")
       /\ calls' = Return(c)
       /\ UNCHANGED <<quote, events, deployment, connected_clients, sessions, payments, rides, drivers, riders>>

\* POST /drivers/location
\* (the driver lookup only yields the immutable _id used in the filter)
update_location(locs) ==
    \E c \in Slots :
    /\ deployment = "app" /\ Free(c)
    /\ \E u \in DriverUsers, m \in locs :
         LET d == DriverKeyByUser(ObjectId(Identity(u)))
         IN  /\ d # 0
             /\ drivers' = [drivers EXCEPT ![d] = located(@, Num(m))]
    /\ UNCHANGED <<quote, events, deployment, connected_clients, sessions, payments, rides, riders, calls>>

\* the checks of the legacy get_available_rides, as the status it answers
legacy_get_available_rides_checks(u) ==
    LET driver == FindDriverByUser(Identity(u))
    IN  IF driver = NoDriver \/ ~driver.is_online THEN 400
        ELSE IF driver.current_location = None THEN 400
        ELSE 200

\* the find of the legacy handler: requested rides within $maxDistance of
\* driver_location, nearest first ($near sorts by distance; the order of
\* rides at the same distance is the server's: oldest or newest first here),
\* limit(20)
legacy_get_available_rides_page(driver_location, newest_first) ==
    LET distance(ride) == calculate_distance(driver_location.v, ride.pickup_location.v)
        near == SelectSeq(rides, LAMBDA ride :
                    ride.status = "requested" /\ distance(ride) <= 10000)
        entries == [k \in 1..Len(near) |->
                      [ride_id |-> str(near[k]._id), key |-> distance(near[k])]]
    IN  slice(sort(IF newest_first THEN reversed(entries) ELSE entries), 20)

\* GET /api/drivers/available-rides
legacy_get_available_rides ==
    \/ \* find the driver: offline or without location: 400
       \E c \in Slots :
       /\ deployment = "legacy" /\ Free(c)
       /\ \E u \in DriverUsers :
            LET driver == FindDriverByUser(Identity(u))
            IN  calls' = Put(c,
                    IF legacy_get_available_rides_checks(u) # 200 THEN IdleCall
                    ELSE [Enter("legacy_get_available_rides", Identity(u), None)
                            EXCEPT !.location = driver.current_location,
                                   !.pc = "find"])
       /\ UNCHANGED <<quote, events, deployment, connected_clients, sessions, payments, rides, drivers, riders>>
    \/ \* find(...).limit(20): 200 with legacy_get_available_rides_page
       \E c \in Slots :
       /\ At(c, "legacy_get_available_rides", "find")
       /\ calls' = Return(c)
       /\ UNCHANGED <<quote, events, deployment, connected_clients, sessions, payments, rides, drivers, riders>>

\* the most rides on the board of requests a driver polls
MaxBoard == 22

BoardSizes == {0, 2, 6, MaxBoard}

\* where the riders of a board wait, in metres along the road
PickupAt(layout, i) ==
    CASE layout = "rising" -> 100 * i
      [] layout = "falling" -> 100 * (MaxBoard + 1 - i)
      [] layout = "far" -> 1000 * i
      [] layout = "close" -> IF i % 2 = 1 THEN 1004 ELSE 1001

Layouts == {"rising", "falling", "far", "close"}

\* where a polling driver may report to be
ListingLocs == {0, 500}

\* a board of n rides of n riders, as request_ride inserted them; with
\* some_cancelled every third was cancelled by its rider before any driver
\* took it
Board(dep, n, layout, some_cancelled) ==
    [i \in 1..n |->
        [_id |-> [t |-> "oid", v |-> i],
         rider_id |-> [t |-> IF dep = "app" THEN "oid" ELSE "str", v |-> 1000 + i],
         driver_id |-> IF dep = "app" THEN None ELSE Absent,
         status |-> IF some_cancelled /\ i % 3 = 0 THEN "cancelled" ELSE "requested",
         ride_type |-> IF dep = "app" THEN "standard" ELSE "economy",
         estimated_fare |-> Num(IF dep = "app" THEN AppCalculateFare(TripKm, "standard")
                                ELSE estimate_ride_fare(TripKm, "economy")),
         final_fare |-> Absent,
         cancelled_by |-> IF some_cancelled /\ i % 3 = 0
                          THEN [t |-> "str", v |-> 1000 + i] ELSE Absent,
         pickup_location |-> Num(PickupAt(layout, i))]]

InitAvailable ==
    \E dep \in {"app", "legacy"}, n \in BoardSizes, layout \in Layouts,
       some_cancelled \in BOOLEAN :
        /\ deployment = dep
        /\ rides = Board(dep, n, layout, some_cancelled)
        /\ drivers = InitDrivers(dep)
        /\ riders = InitRiders(dep)
        /\ calls = EmptyBag
        /\ payments = {}
        /\ events = {}
        /\ quote = NoQuote
        /\ InitSockets({})

\* drivers coming online, moving and polling the board
NextAvailable ==
    \/ get_available_rides
    \/ go_online
    \/ update_location(ListingLocs)
    \/ legacy_get_available_rides
    \/ update_driver_status
    \/ update_driver_location(ListingLocs)

SpecAvailable == InitAvailable /\ [][NextAvailable]_vars

(* ---------------------------------------------------------------------- *)
(* The fare functions on their own: arguments drawn, then one call          *)
(* ---------------------------------------------------------------------- *)
\* the ride classes of the tariff, and one it does not know
RideTypes == {"economy", "comfort", "premium", "xl", "standard"}

\* trip lengths in km, the minute a ride ends (it starts at minute 0), party
\* sizes, and the hours and weekdays (Monday is 0) of the clock
Distances == {0, 1, 2, 8, 10}

Completions == {Absent, Num(12), Num(30)}

Parties == {1, 3}

Hours == {3, 8, 12, 18}

Weekdays == {2, 6}

InitPricing ==
    /\ deployment = "legacy"
    /\ rides = << >>
    /\ drivers = InitDrivers("legacy")
    /\ riders = InitRiders("legacy")
    /\ calls = EmptyBag
    /\ payments = {}
    /\ events = {}
    /\ InitSockets({})
    /\ \E ride_type \in RideTypes, distance_km \in Distances,
          completed_at \in Completions, passengers \in Parties,
          hour \in Hours, weekday \in Weekdays :
            quote = [NoQuote EXCEPT !.ride_type = ride_type,
                                    !.distance_km = distance_km,
                                    !.started_at = Num(0),
                                    !.completed_at = completed_at,
                                    !.passengers = passengers,
                                    !.hour = hour, !.weekday = weekday]

\* the arguments drawn and the function not yet called
Drawn == quote.fn = "none"

\* the quote after fn has returned amount
Returned(fn, amount) == [quote EXCEPT !.fn = fn, !.amount = Num(amount)]

estimate_fare_call ==
    /\ Drawn
    /\ quote' = Returned("estimate_fare",
                    estimate_fare(quote.distance_km, quote.ride_type, quote.passengers,
                                  get_surge_multiplier(quote.hour, quote.weekday)))
    /\ UNCHANGED <<events, deployment, connected_clients, sessions, rides, drivers, riders, calls, payments>>

estimate_ride_fare_call ==
    /\ Drawn
    /\ quote' = Returned("estimate_ride_fare",
                    estimate_ride_fare(quote.distance_km, quote.ride_type))
    /\ UNCHANGED <<events, deployment, connected_clients, sessions, rides, drivers, riders, calls, payments>>

calculate_fare_call ==
    /\ Drawn
    /\ quote' = Returned("calculate_fare",
                    calculate_fare(quote, get_surge_multiplier(quote.hour, quote.weekday)))
    /\ UNCHANGED <<events, deployment, connected_clients, sessions, rides, drivers, riders, calls, payments>>

get_surge_multiplier_call ==
    /\ Drawn
    /\ quote' = Returned("get_surge_multiplier",
                    get_surge_multiplier(quote.hour, quote.weekday))
    /\ UNCHANGED <<events, deployment, connected_clients, sessions, rides, drivers, riders, calls, payments>>

NextPricing ==
    \/ estimate_fare_call
    \/ estimate_ride_fare_call
    \/ calculate_fare_call
    \/ get_surge_multiplier_call

SpecPricing == InitPricing /\ [][NextPricing]_vars

(* ---------------------------------------------------------------------- *)
(* Location updates over the sockets, and of riders                         *)
(* ---------------------------------------------------------------------- *)
\* 'driver_location_update' of the app's socket: the sender is the connected
\* client, a driver
handle_driver_location_update(locs) ==
    \/ \* a session without an entry in connected_clients: return; only
       \* drivers; find the driver: 'Driver profile not found'
       \E c \in Slots :
       /\ deployment = "app" /\ Free(c)
       /\ \E sid \in DOMAIN sessions, m \in locs :
            LET client == registered(sid)
                user_id == client.user_id
                driver == FindDriverByUser(ObjectId(user_id))
            IN  calls' = Put(c,
                    IF client = NoClient \/ client.user_type # "driver"
                       \/ driver = NoDriver
                    THEN IdleCall
                    ELSE [Enter("handle_driver_location_update", user_id,
                                driver.current_ride_id)
                            EXCEPT !.driver_id = driver._id,
                                   !.location = Num(m),
                                   !.pc = "update_driver"])
       /\ UNCHANGED <<quote, events, deployment, connected_clients, sessions, payments, rides, drivers, riders>>
    \/ \* update_one on the driver; without a ride on the document read: done
       \E c \in Slots :
       /\ At(c, "handle_driver_location_update", "update_driver")
       /\ drivers' = [drivers EXCEPT ![DriverKeyById(c.driver_id)] =
                        located(@, c.location)]
       /\ calls' = Put(c, IF Truthy(c.ride_id) THEN [c EXCEPT !.pc = "find_ride"]
                          ELSE IdleCall)
       /\ UNCHANGED <<quote, events, deployment, connected_clients, sessions, payments, rides, riders>>
    \/ \* find the ride of the document read; accepted or in progress: emit to
       \* the room of its rider
       \E c \in Slots :
       /\ At(c, "handle_driver_location_update", "find_ride")
       /\ LET ride == FindRide(c.ride_id)
          IN  events' = IF ride # NoRide /\ ride.status \in {"accepted", "in_progress"}
                        THEN events \cup {Event("driver_location_update",
                                                ride.rider_id.v, c.user.v, ride._id)}
                        ELSE events
       /\ calls' = Return(c)
       /\ UNCHANGED <<quote, deployment, connected_clients, sessions, payments, rides, drivers, riders>>

\* 'update_location' of the legacy driver socket: the driver is the one the
\* message names; the event goes to every connected client (broadcast=True)
handle_location_update(locs) ==
    \E c \in Slots :
    /\ deployment = "legacy" /\ Free(c)
    /\ \E u \in DriverUsers, m \in locs :
         LET d == DriverKeyByUser(Identity(u))
         IN  /\ drivers' = IF d = 0 THEN drivers
                           ELSE [drivers EXCEPT ![d] = located(@, Num(m))]
             /\ events' = events \cup
                    {Event("location_updated", to, u, None) : to \in Users}
    /\ UNCHANGED <<quote, deployment, connected_clients, sessions, payments, rides, riders, calls>>

\* 'ride_request' of the legacy driver socket: the ride is looked up by the
\* id as the message carries it, the driver named has to be online, then
\* new_ride_request goes to the driver's room
driver_handle_ride_request ==
    \E c \in Slots :
    /\ deployment = "legacy" /\ Free(c)
    /\ \E u \in DriverUsers, rid \in WireRideIds :
         LET ride == socket_ride(rid)
             d == DriverKeyByUser(Identity(u))
         IN  events' = IF ride # NoRide /\ d # 0 /\ drivers[d].is_online
                       THEN events \cup {Event("new_ride_request", u, u, rid)}
                       ELSE events
    /\ UNCHANGED <<quote, deployment, connected_clients, sessions, payments, rides, drivers, riders, calls>>

\* PUT /api/riders/location
update_rider_location(locs) ==
    \E c \in Slots :
    /\ deployment = "legacy" /\ Free(c)
    /\ \E u \in RiderUsers, m \in locs :
         LET r == RiderKeyByUser(Identity(u))
         IN  riders' = IF r = 0 THEN riders
                       ELSE [riders EXCEPT ![r] = located(@, Num(m))]
    /\ UNCHANGED <<quote, events, deployment, connected_clients, sessions, payments, rides, drivers, calls>>

\* 'update_location' of the legacy rider socket
rider_handle_location_update(locs) ==
    \/ \* update_one on the rider
       \E c \in Slots :
       /\ deployment = "legacy" /\ Free(c)
       /\ \E u \in RiderUsers, m \in locs :
            LET r == RiderKeyByUser(Identity(u))
            IN  /\ riders' = IF r = 0 THEN riders
                             ELSE [riders EXCEPT ![r] = located(@, Num(m))]
                /\ calls' = Put(c, [Enter("rider_handle_location_update",
                                          Identity(u), None)
                                      EXCEPT !.pc = "find_rider"])
       /\ UNCHANGED <<quote, events, deployment, connected_clients, sessions, payments, rides, drivers>>
    \/ \* find the rider, then the ride its current_ride_id names: a string, as
       \* the socket stored it; with a driver and accepted or enroute: emit to
       \* the room of the driver
       \E c \in Slots :
       /\ At(c, "rider_handle_location_update", "find_rider")
       /\ LET r == RiderKeyByUser(c.user)
              ride == IF r # 0 /\ Truthy(get(riders[r].current_ride_id))
                      THEN socket_ride(riders[r].current_ride_id)
                      ELSE NoRide
          IN  events' = IF /\ ride # NoRide /\ Truthy(get(ride.driver_id))
                           /\ ride.status \in {"accepted", "enroute"}
                        THEN events \cup {Event("rider_location_update",
                                                ride.driver_id.v, 0, ride._id)}
                        ELSE events
       /\ calls' = Return(c)
       /\ UNCHANGED <<quote, deployment, connected_clients, sessions, payments, rides, drivers, riders>>

\* rides being requested and accepted while drivers and riders report where
\* they are
NextLocation ==
    \/ request_ride(StandardRequests)
    \/ accept_ride
    \/ go_online
    \/ update_location(DriverLocs)
    \/ handle_driver_location_update(DispatchLocs)
    \/ handle_ride_request(LifecycleRides)
    \/ driver_handle_ride_request
    \/ legacy_accept_ride
    \/ update_driver_status
    \/ update_driver_location(DriverLocs)
    \/ handle_location_update(DispatchLocs)
    \/ update_rider_location(DriverLocs)
    \/ rider_handle_location_update(DriverLocs)

SpecLocation == InitConnected /\ [][NextLocation]_vars

(* ---------------------------------------------------------------------- *)
(* Ride requests of every shape                                             *)
(* ---------------------------------------------------------------------- *)
\* riders send well-formed and ill-formed requests while drivers come and go
NextRequest ==
    \/ request_ride(AnyAppRequests)
    \/ legacy_request_ride(MaxRides, AnyRequests)
    \/ update_driver_status
    \/ update_driver_location(DriverLocs)

SpecRequest == Init /\ [][NextRequest]_vars

(* ---------------------------------------------------------------------- *)
(* app/websockets/__init__.py: the registry of clients and the ride rooms  *)
(* ---------------------------------------------------------------------- *)
\* room broadcasts recorded per run
MaxRoomEvents == 1

\* a broadcast to a ride room as one of its members receives it
RoomEvent(event, to, ride_id, status, updated_by) ==
    [event |-> event, to |-> to, driver |-> 0, ride_id |-> ride_id,
     status |-> status, updated_by |-> updated_by]

\* socketio.emit(event, ..., room=f"ride_{ride_id}"): one record per session
\* in the room
emit_to_ride_room(event, ride_id, status, updated_by) ==
    {RoomEvent(event, s.v, ride_id, status, updated_by) :
       s \in {m \in DOMAIN sessions : RideRoom(ride_id) \in sessions[m].rooms}}

\* a registry from which nothing is ever taken
keep(clients, sid) == clients

\* del connected_clients[request.sid]
forget(clients, sid) == [s \in DOMAIN clients \ {sid} |-> clients[s]]

\* the users whose client opens a socket: the riders and a driver
SocketUsers == {101, 102, 201}

\* 'connect': no token or one that does not decode: return False, the
\* connection is refused; otherwise the entry is stored and the session joins
\* the room of its user
handle_connect ==
    /\ deployment = "app"
    /\ \E u \in SocketUsers : \E token \in Tokens(u) :
         LET sid == Sid(u)
             decoded_token == decode_token(token)
             accepted == Truthy(token) /\ decoded_token.sub # None
         IN  /\ ~sessions[sid].connected
             /\ connected_clients' =
                  IF accepted
                  THEN [s \in DOMAIN connected_clients \cup {sid} |->
                          IF s = sid THEN client_info(token)
                          ELSE connected_clients[s]]
                  ELSE connected_clients
             /\ sessions' =
                  IF accepted
                  THEN [sessions EXCEPT ![sid] =
                          [token |-> token, connected |-> TRUE,
                           rooms |-> {UserRoom(decoded_token.sub)}]]
                  ELSE sessions
    /\ UNCHANGED <<deployment, rides, drivers, riders, calls, payments, quote, events>>

\* 'disconnect': the session leaves its rooms and its entry is deleted
handle_disconnect ==
    /\ deployment = "app"
    /\ \E sid \in DOMAIN sessions :
         /\ sessions[sid].connected
         /\ connected_clients' =
              IF sid \in DOMAIN connected_clients
              THEN forget(connected_clients, sid)
              ELSE connected_clients
         /\ sessions' = [sessions EXCEPT ![sid] = NoSession]
    /\ UNCHANGED <<deployment, rides, drivers, riders, calls, payments, quote, events>>

\* 'join_ride_room': for the rider of the ride and the user of its driver
handle_join_ride_room ==
    \/ \* no entry: return; find_one on the ride: 'Ride not found'
       \E c \in Slots :
       /\ deployment = "app" /\ Free(c)
       /\ \E sid \in DOMAIN sessions, ride_id \in WireRideIds :
            LET client == registered(sid)
                ride == FindRide(ObjectId(ride_id))
            IN  calls' = Put(c,
                    IF client = NoClient \/ ride = NoRide THEN IdleCall
                    ELSE [Enter("handle_join_ride_room", client.user_id, ride_id)
                            EXCEPT !.rider_id = ride.rider_id,
                                   !.ride_driver_id = get(ride.driver_id),
                                   !.pc = "find_driver"])
       /\ UNCHANGED <<quote, events, deployment, connected_clients, sessions,
                      payments, rides, drivers, riders>>
    \/ \* is_rider, or find_one({'_id': ride['driver_id'], 'user_id': ...});
       \* neither: 'Not authorized for this ride'
       \E c \in Slots :
       /\ At(c, "handle_join_ride_room", "find_driver")
       /\ LET sid == c.user
              is_rider == str(c.rider_id) = c.user
              is_driver == /\ Truthy(c.ride_driver_id)
                           /\ \E d \in DOMAIN drivers :
                                /\ drivers[d]._id = c.ride_driver_id
                                /\ drivers[d].user_id = ObjectId(c.user)
          IN  sessions' =
                IF (is_rider \/ is_driver) /\ sessions[sid].connected
                THEN [sessions EXCEPT ![sid].rooms = @ \cup {RideRoom(c.ride_id)}]
                ELSE sessions
       /\ calls' = Return(c)
       /\ UNCHANGED <<quote, events, deployment, connected_clients, payments,
                      rides, drivers, riders>>

\* the statuses a client puts into 'ride_status_update'
StatusInputs == {"accepted", "completed"}

\* 'ride_status_update': the payload's status goes to the ride room as it
\* came, with the sender's user_id; the ride is not read
handle_ride_status_update ==
    /\ deployment = "app"
    /\ Cardinality(events) < MaxRoomEvents
    /\ \E sid \in DOMAIN sessions, ride_id \in WireRideIds,
          new_status \in StatusInputs :
         LET client == registered(sid)
         IN  events' =
               IF client = NoClient THEN events
               ELSE events \cup emit_to_ride_room("ride_status_changed", ride_id,
                                                  new_status, client.user_id)
    /\ UNCHANGED <<deployment, rides, drivers, riders, calls, payments, quote,
                   connected_clients, sessions>>

\* 'send_message': the ride must exist ('Ride not found'); the message goes
\* to the ride room
handle_ride_message ==
    /\ deployment = "app"
    /\ Cardinality(events) < MaxRoomEvents
    /\ \E sid \in DOMAIN sessions, ride_id \in WireRideIds :
         LET client == registered(sid)
             ride == FindRide(ObjectId(ride_id))
         IN  events' =
               IF client = NoClient \/ ride = NoRide THEN events
               ELSE events \cup emit_to_ride_room("new_message", ride_id,
                                                  "none", client.user_id)
    /\ UNCHANGED <<deployment, rides, drivers, riders, calls, payments, quote,
                   connected_clients, sessions>>

\* one rider asks for a ride; the other users only have their sockets
OneRequest ==
    [u \in RiderUsers |-> IF u = 101 THEN StandardRequests[u] ELSE {}]

\* one handler with database calls runs at a time
OneAtATime == BagCardinality(calls') <= 1

\* the sockets of the app around one ride that is requested and accepted, the
\* handlers answered one after the other
NextRooms ==
    \/ handle_connect
    \/ handle_disconnect
    \/ handle_join_ride_room /\ OneAtATime
    \/ handle_ride_status_update
    \/ handle_ride_message
    \/ handle_driver_location_update(DriverLocs) /\ OneAtATime
    \/ request_ride(OneRequest) /\ OneAtATime
    \/ go_online
    \/ accept_ride /\ OneAtATime

SpecRooms == InitIn("app") /\ [][NextRooms]_vars

Next ==
    NextApp \/ NextLegacy \/ NextDispatch \/ NextSockets \/ NextAvailable
        \/ NextPricing \/ NextLocation \/ NextRequest \/ NextDisconnect
        \/ NextRooms

Spec == Init /\ [][Next]_vars

(* ---------------------------------------------------------------------- *)
(* Properties.  ACCEPTED is "accepted"; STARTED is "in_progress" in the    *)
(* app and "started" in the legacy deployment.                             *)
(* ---------------------------------------------------------------------- *)
Bound == {"accepted", "in_progress", "started"}

NonTerminal == {"requested"} \cup Bound

HasDriver(ride) == Truthy(get(ride.driver_id))

\* the handlers in flight that satisfy P, counted with their copies
NumberOf(P(_)) == CopiesOf({c \in InFlight : P(c)})

\* an accept handler that has passed its last error exit: what is left of it
\* is the driver write and the 200 (in the legacy handler the ride write too,
\* which matches whatever the ride's status is)
AcceptWon(c) ==
    \/ c.op = "accept_ride" /\ c.pc = "update_driver"
    \/ c.op = "legacy_accept_ride" /\ c.pc \in {"update_ride", "update_driver"}

\* C1: of the accept calls that distinct drivers have in flight for one ride,
\* at most one gets past its error exits and answers success.
C1_OneDriverWinsTheRide ==
    \A c1, c2 \in InFlight :
        (AcceptWon(c1) /\ AcceptWon(c2) /\ c1.ride_id = c2.ride_id)
            => c1.user = c2.user

\* C2: no two rides that are ACCEPTED or STARTED have the same driverId.
C2_NoDriverOnTwoRides ==
    \A i, j \in DOMAIN rides :
        (/\ i # j
         /\ rides[i].status \in Bound /\ rides[j].status \in Bound
         /\ HasDriver(rides[i]))
            => rides[i].driver_id # rides[j].driver_id

\* the rides bound to driver d that are ACCEPTED or STARTED
RidesOf(d) ==
    {i \in DOMAIN rides : /\ rides[i].status \in Bound
                          /\ rides[i].driver_id \in {drivers[d]._id, drivers[d].user_id}}

\* C3: in every state, also between the two writes of a handler, a driver has
\* a current_ride_id iff exactly one ACCEPTED or STARTED ride carries its id,
\* and current_ride_id is that ride.
C3_BusyIffOneBoundRide ==
    \A d \in DriverUsers :
        /\ Truthy(drivers[d].current_ride_id) <=> Cardinality(RidesOf(d)) = 1
        /\ Truthy(drivers[d].current_ride_id)
              => \A i \in RidesOf(d) : rides[i]._id.v = drivers[d].current_ride_id.v

\* C4: a rider never has two rides that are REQUESTED, ACCEPTED or STARTED.
C4_OneOpenRidePerRider ==
    \A i, j \in DOMAIN rides :
        (/\ i # j
         /\ rides[i].status \in NonTerminal /\ rides[j].status \in NonTerminal)
            => rides[i].rider_id # rides[j].rider_id

LegalTransitions ==
    {<<"requested", "accepted">>, <<"accepted", "in_progress">>,
     <<"accepted", "started">>, <<"in_progress", "completed">>,
     <<"started", "completed">>}
    \cup {<<s, "cancelled">> : s \in NonTerminal}

\* C5: every change of a ride's status is a legal transition, so a COMPLETED
\* or CANCELLED ride never changes status again.
C5_OnlyLegalTransitions ==
    [][\A i \in DOMAIN rides :
          rides'[i].status # rides[i].status
              => <<rides[i].status, rides'[i].status>> \in LegalTransitions]_vars

\* C6: when the request handler that assigned a driver returns, the ride is
\* ACCEPTED with that driver and the driver's current_ride_id is the new ride.
C6_PushedRideBindsDriver ==
    [][\A c \in InFlight :
          (/\ c.op = "legacy_request_ride" /\ c.pc = "assign"
           /\ calls' = Return(c))
              => \E d \in DriverUsers :
                    /\ str(drivers'[d]._id) = c.driver_id
                    /\ Truthy(get(drivers'[d].current_ride_id))
                    /\ drivers'[d].current_ride_id.v = c.ride_id.v
                    /\ FindRide(ObjectId(c.ride_id))'.status = "accepted"
                    /\ FindRide(ObjectId(c.ride_id))'.driver_id = c.driver_id]_vars

\* C7: the dispatcher never gives two rides of different riders the same driver
\* while both are ACCEPTED or STARTED.
C7_PushNeverDoubleBooks ==
    \A i, j \in DOMAIN rides :
        (/\ rides[i].rider_id # rides[j].rider_id
         /\ rides[i].status \in Bound /\ rides[j].status \in Bound
         /\ HasDriver(rides[i])
         /\ \E d \in DriverUsers : rides[i].driver_id = str(drivers[d]._id))
            => rides[i].driver_id # rides[j].driver_id

\* C8 as the specification has it: a ride has a driverId iff it is ACCEPTED
\* or STARTED.
C8_DriverIdIffBound ==
    \A i \in DOMAIN rides : HasDriver(rides[i]) <=> rides[i].status \in Bound

\* C8, as the code has it: a REQUESTED ride has no driverId, an ACCEPTED,
\* STARTED or COMPLETED ride has one (completion and cancellation leave the
\* driverId in place, so a CANCELLED ride has one iff it had been accepted).
C8_DriverIdKept ==
    \A i \in DOMAIN rides :
        /\ rides[i].status = "requested" => ~HasDriver(rides[i])
        /\ rides[i].status \in Bound \cup {"completed"} => HasDriver(rides[i])

\* a completed ride still carries its driver, and a cancelled one as well
C8_CompletedAndCancelledWithDriver ==
    /\ \E i \in DOMAIN rides : rides[i].status = "completed" /\ HasDriver(rides[i])
    /\ \E i \in DOMAIN rides : rides[i].status = "cancelled" /\ HasDriver(rides[i])

\* C9: a ride has a finalFare iff it is COMPLETED.
C9_FinalFareIffCompleted ==
    \A i \in DOMAIN rides :
        Truthy(get(rides[i].final_fare)) <=> rides[i].status = "completed"

\* handlers on ride rid that have passed their last error exit: what is left
\* of them is writes and the success response (the legacy completion can still
\* fail on its payment record)
CompleteWon(c, rid) ==
    /\ c.ride_id = rid
    /\ \/ c.op = "complete_ride"
       \/ c.op = "legacy_complete_ride" /\ c.pc = "insert_payment"
                                       /\ rid.v \notin payments

CancelWon(c, rid) ==
    c.ride_id = rid /\ c.op \in {"cancel_ride", "legacy_cancel_ride"}

StartWon(c, rid) == c.ride_id = rid /\ c.op = "legacy_start_ride"

\* C10: of the calls racing on one ride, complete against complete or cancel
\* on a STARTED ride and start against cancel on an ACCEPTED ride, only one
\* gets past its error exits and answers success.
C10_OneCallerWinsATransition ==
    \A rid \in WireRideIds :
        LET status == FindRide(ObjectId(rid)).status
            Completing(c) == CompleteWon(c, rid)
            Cancelling(c) == CancelWon(c, rid)
            Starting(c) == StartWon(c, rid)
        IN  /\ (status \in {"in_progress", "started"} /\ NumberOf(Completing) >= 1)
                  => NumberOf(Completing) + NumberOf(Cancelling) = 1
            /\ (status = "accepted" /\ NumberOf(Starting) >= 1)
                  => NumberOf(Starting) + NumberOf(Cancelling) = 1


\* driver d's current_ride_id names ride i
BoundTo(d, i) ==
    /\ Truthy(get(drivers[d].current_ride_id))
    /\ drivers[d].current_ride_id.v = rides[i]._id.v

\* an accept or cancel handler is in flight on ride i
AcceptOrCancelRunning(i) ==
    \E c \in InFlight :
        /\ c.op \in {"accept_ride", "legacy_accept_ride",
                     "cancel_ride", "legacy_cancel_ride"}
        /\ c.ride_id.v = rides[i]._id.v

\* C11: once a ride has been cancelled and the cancel and accept handlers on
\* it have returned, no driver's current_ride_id names the cancelled ride.
C11_CancelledRideHoldsNoDriver ==
    \A i \in DOMAIN rides :
        (rides[i].status = "cancelled" /\ ~AcceptOrCancelRunning(i))
            => \A d \in DriverUsers : ~BoundTo(d, i)


\* the COMPLETED rides that carry driver d
CompletedRidesOf(d) ==
    {i \in DOMAIN rides : /\ rides[i].status = "completed"
                          /\ rides[i].driver_id \in {drivers[d]._id, drivers[d].user_id}}

RECURSIVE SumOfFares(_)
SumOfFares(S) ==
    IF S = {} THEN 0
    ELSE LET i == CHOOSE x \in S : TRUE
         IN  get(rides[i].final_fare).v + SumOfFares(S \ {i})

\* C12: when no handler is in flight, a driver's total_rides is the number of
\* COMPLETED rides that carry it and its earnings are the sum of their fares.
C12_StatisticsCountCompletedRides ==
    calls = EmptyBag =>
        \A d \in DriverUsers :
            /\ drivers[d].total_rides = Cardinality(CompletedRidesOf(d))
            /\ drivers[d].earnings = SumOfFares(CompletedRidesOf(d))


\* what a cancel call by user u on the ride with wire id rid is answered
CancelAnswer(u, rid) ==
    IF deployment = "app" THEN cancel_ride_checks(u, rid)
    ELSE legacy_cancel_ride_checks(u, rid)

StateError == {400, 409}

IsRiderOf(u, rid) ==
    FindRide(ObjectId(rid)).rider_id \in {Identity(u), ObjectId(Identity(u))}

CancelRunning(rid) ==
    \E c \in InFlight : /\ c.op \in {"cancel_ride", "legacy_cancel_ride"}
                        /\ c.ride_id = rid

IsDriverOf(u, rid) ==
    /\ u \in DriverUsers
    /\ HasDriver(FindRide(ObjectId(rid)))
    /\ get(FindRide(ObjectId(rid)).driver_id) \in
           {drivers[u]._id, str(drivers[u]._id), drivers[u].user_id}

\* C14: a cancel call on a REQUESTED, ACCEPTED or STARTED ride by its rider or
\* by the driver bound to it passes the checks of the handler, which then
\* writes CANCELLED.
C14_PartiesMayCancel ==
    \A u \in Users, rid \in WireRideIds :
        (/\ FindRide(ObjectId(rid)).status \in NonTerminal
         /\ IsRiderOf(u, rid) \/ IsDriverOf(u, rid))
            => CancelAnswer(u, rid) = 200


\* the start and complete handlers that run in several database calls
StartOrComplete == {"complete_ride", "legacy_start_ride", "legacy_complete_ride"}

\* C15: a start or complete call by a driver the ride is not bound to is
\* refused by the REST handlers and matches no ride in the socket handlers,
\* whatever the status of the ride, and no such call gets to its writes.
C15_OnlyTheBoundDriverStartsOrCompletes ==
    /\ [](\A u \in DriverUsers, rid \in WireRideIds :
            ~IsDriverOf(u, rid)
                => IF deployment = "app"
                   THEN /\ start_ride_checks(u, rid) # 200
                        /\ complete_ride_checks(u, rid) # 200
                   ELSE /\ legacy_start_ride_checks(u, rid) # 200
                        /\ legacy_complete_ride_checks(u, rid) # 200
                        /\ socket_ride(rid) = NoRide)
    /\ [][\A c \in InFlight' :
            (c \notin InFlight /\ c.op \in StartOrComplete /\ c.pc = "update_ride")
                => IsDriverOf(c.user.v, c.ride_id)]_vars

\* a ride bound to one driver while the other driver, who could call start or
\* complete on it, is not bound to it
C15_RideOfAnotherDriver ==
    \E rid \in WireRideIds, u \in DriverUsers :
        /\ FindRide(ObjectId(rid)).status \in Bound
        /\ HasDriver(FindRide(ObjectId(rid)))
        /\ ~IsDriverOf(u, rid)


\* user u is neither the rider nor the driver of the ride with wire id rid
Stranger(u, rid) == ~IsRiderOf(u, rid) /\ ~IsDriverOf(u, rid)

\* C16: a cancel call on a ride by a user who is neither its rider nor its
\* driver is answered 403, and no such call gets to the writes of the handler.
C16_StrangersCannotCancel ==
    /\ [](\A u \in Users, rid \in WireRideIds :
            (FindRide(ObjectId(rid)) # NoRide /\ Stranger(u, rid))
                => CancelAnswer(u, rid) = 403)
    /\ [][\A c \in InFlight' :
            (/\ c \notin InFlight
             /\ c.op \in {"cancel_ride", "legacy_cancel_ride"}
             /\ c.pc = "update_ride")
                => ~Stranger(c.user.v, c.ride_id)]_vars

\* a ride that is not over, with a driver bound, and a user who is no party
C16_StrangerAtABoundRide ==
    \E rid \in WireRideIds, u \in Users :
        /\ FindRide(ObjectId(rid)).status \in Bound
        /\ Stranger(u, rid)
        /\ CancelAnswer(u, rid) = 403


\* the status the deployed request handler answers to user u
RequestAnswer(u) ==
    IF deployment = "app" THEN request_ride_checks(u)
    ELSE legacy_request_ride_checks(u)

\* the rider has a ride that is requested, accepted or started
HasOpenRide(u) ==
    \E i \in DOMAIN rides :
        /\ rides[i].rider_id \in {Identity(u), ObjectId(Identity(u))}
        /\ rides[i].status \in NonTerminal

\* C17: a ride request by a rider who already has a requested, accepted or
\* started ride is answered 409 (ConflictError), and the handler does not go on
\* to its insert, so that no ride is added and no driver document is written
C17_SecondRequestIsConflict ==
    /\ [](\A u \in RiderUsers : HasOpenRide(u) => RequestAnswer(u) = 409)
    /\ [][\A c \in InFlight' :
            (c \notin InFlight /\ c.op \in {"request_ride", "legacy_request_ride"}
                /\ c.pc = "insert")
                => \A u \in RiderUsers : Identity(u) = c.user => ~HasOpenRide(u)]_vars

\* the status the deployed start handler answers to driver u for ride rid
StartAnswer(u, rid) ==
    IF deployment = "app" THEN start_ride_checks(u, rid)
    ELSE legacy_start_ride_checks(u, rid)

\* C18: a start call on an existing ride that is not accepted, or whose driver
\* is not the caller, is answered 400 (StateError) and leaves the ride as it
\* is: the legacy handler does not go on to its update, and in the app a ride
\* becomes in_progress only from accepted, with its driver
C18_BadStartIsStateError ==
    /\ [](\A u \in DriverUsers, rid \in WireRideIds :
            (/\ FindRide(ObjectId(rid)) # NoRide
             /\ \/ FindRide(ObjectId(rid)).status # "accepted"
                \/ ~IsDriverOf(u, rid))
                => StartAnswer(u, rid) = 400)
    /\ [][/\ \A c \in InFlight' :
                (c \notin InFlight /\ c.op = "legacy_start_ride" /\ c.pc = "update_ride")
                    => /\ FindRide(ObjectId(c.ride_id)).status = "accepted"
                       /\ IsDriverOf(c.user.v, c.ride_id)
          /\ deployment = "app" =>
                \A i \in DOMAIN rides :
                    (rides[i].status # "in_progress" /\ rides'[i].status = "in_progress")
                        => rides[i].status = "accepted" /\ HasDriver(rides[i])]_vars

\* the compatibility matrix: the vehicle types a ride class accepts
compatibility_matrix(ride_type) ==
    CASE ride_type = "economy" -> {"sedan", "hatchback", "compact"}
      [] ride_type = "comfort" -> {"sedan", "suv", "luxury"}
      [] ride_type = "premium" -> {"luxury", "suv"}
      [] ride_type = "xl" -> {"xl", "suv", "van"}
      [] OTHER -> {}

\* the request handler c has just been handed a driver by find_nearest_driver
Selected(c) ==
    /\ c \in InFlight' /\ c \notin InFlight
    /\ c.op = "legacy_request_ride" /\ c.pc = "assign"

\* C19: the driver the push dispatcher selects for a ride is, in the state the
\* selection reads, online with current_ride_id null, within max_distance_km
\* (10 km) of the pickup, and has a vehicle type the compatibility matrix
\* lists for the class of the ride
C19_SelectedDriverWasEligible ==
    [][\A c \in InFlight' :
        Selected(c) =>
            \E d \in DriverUsers :
                /\ c.driver_id = str(drivers[d]._id)
                /\ drivers[d].is_online
                /\ drivers[d].current_ride_id = None
                /\ drivers[d].current_location # None
                /\ calculate_distance(PickupKm * 1000, drivers[d].current_location.v) <= 10000
                /\ drivers[d].vehicle_type \in compatibility_matrix(c.ride_type)]_vars

\* a driver has been selected for a ride while another driver was online and
\* free but out of reach or with a vehicle the class does not accept
C19_SelectedWhileAnotherWasNot ==
    \E c \in InFlight, e \in DriverUsers :
        /\ c.op = "legacy_request_ride" /\ c.pc = "assign"
        /\ c.driver_id # str(drivers[e]._id)
        /\ drivers[e].is_online /\ drivers[e].current_ride_id = None
        /\ drivers[e].current_location # None
        /\ \/ calculate_distance(PickupKm * 1000, drivers[e].current_location.v) > 10000
           \/ drivers[e].vehicle_type \notin compatibility_matrix(c.ride_type)

\* a handler that has read its driver and is about to answer a page of rides
Listing(c) ==
    \/ c.op = "get_available_rides" /\ c.pc = "aggregate"
    \/ c.op = "legacy_get_available_rides" /\ c.pc = "find"

\* the pages handler c may answer from the rides as they are now
PagesOf(c) ==
    IF c.op = "get_available_rides"
    THEN {get_available_rides_page(c.location)}
    ELSE {legacy_get_available_rides_page(c.location, newest_first) :
            newest_first \in BOOLEAN}

\* the cap on a page
PageCap == IF deployment = "app" THEN 5 ELSE 20

\* how far the pickup of ride i is from the place loc
AwayFrom(loc, i) == calculate_distance(loc.v, rides[i].pickup_location.v)

\* the requested rides without a driver within 10 km of loc
Qualifying(loc) ==
    {i \in DOMAIN rides :
        /\ rides[i].status = "requested"
        /\ ~HasDriver(rides[i])
        /\ AwayFrom(loc, i) <= 10000}

\* C20: the page the listing answers holds only requested rides without a
\* driver within 10 km of the driver's location as the handler read it, in
\* order of non-decreasing distance to the pickup, at most 5 of them in the
\* app and 20 in the legacy handler; it holds every qualifying ride, or else
\* it is full and no ride left out is closer than a ride on it
C20_PageIsTheClosestRides ==
    \A c \in InFlight : Listing(c) =>
        \A page \in PagesOf(c) :
            LET at(k) == RideIndex(ObjectId(page[k].ride_id))
                on_page == {at(k) : k \in 1..Len(page)}
            IN  /\ on_page \subseteq Qualifying(c.location)
                /\ Cardinality(on_page) = Len(page)
                /\ \A k, l \in 1..Len(page) :
                     k < l => AwayFrom(c.location, at(k)) <= AwayFrom(c.location, at(l))
                /\ Len(page) <= PageCap
                /\ \/ on_page = Qualifying(c.location)
                   \/ /\ Len(page) = PageCap
                      /\ \A i \in Qualifying(c.location) \ on_page, j \in on_page :
                            AwayFrom(c.location, i) >= AwayFrom(c.location, j)

\* the amount the fare rule names for a trip: the greater of the minimum fare
\* and base + distance (+ time), times the surge, rounded to the cent at the end
RuleFare(ride_type, distance_km, minutes, surge) ==
    round_to_cents(
        Max(min_fares(ride_type),
            base_fares(ride_type) + distance_km * per_km_rates(ride_type)
                + minutes * per_minute_rates(ride_type)) * surge,
        100)

\* C21: for every ride class and distance, the estimate (for the default
\* party of one) is max(minFare, baseFare + distanceKm * perKmRate) times the
\* surge multiplier, rounded at return; so 10 km in economy without surge
\* costs 17.50 and no estimate is below the minimum fare of its class
C21_EstimateIsFlooredTariff ==
    (quote.fn \in {"estimate_fare", "estimate_ride_fare"} /\ quote.passengers = 1)
        => /\ quote.amount.v = RuleFare(quote.ride_type, quote.distance_km, 0,
                                        get_surge_multiplier(quote.hour, quote.weekday))
           /\ quote.amount.v >= min_fares(quote.ride_type)

\* every trip of the model is completed this many minutes after its start
TripMinutes == 12

\* the document of ride once completed: what the fare calculator is to price
CompletedRide(ride) ==
    [StartedRide(ride) EXCEPT !.completed_at = Num(TripMinutes)]

\* C22: the final fare recorded for a ride a driver completed (the legacy
\* handler takes no override) is what the fare calculator gives for its
\* distance and the minutes between its start and its completion, time
\* component included
C22_FinalFareCountsTheMinutes ==
    \A i \in DOMAIN rides :
        (rides[i].status = "completed" /\ rides[i].final_fare # Absent)
            => \E surge \in Surges :
                 rides[i].final_fare = Num(calculate_fare(CompletedRide(rides[i]), surge))

\* the minutes of the trip the fare function was called on (0 without a
\* completion time)
QuotedMinutes ==
    IF quote.completed_at = Absent THEN 0
    ELSE quote.completed_at.v - quote.started_at.v

\* C23: the final fare is the greater of the minimum fare and the subtotal
\* base + distance + time, times the surge multiplier: the floor comes before
\* the surge, and no final fare is below the minimum fare times the surge
C23_FloorBeforeSurge ==
    quote.fn = "calculate_fare"
        => LET surge == get_surge_multiplier(quote.hour, quote.weekday)
           IN  /\ quote.amount.v = RuleFare(quote.ride_type, quote.distance_km,
                                            QuotedMinutes, surge)
               /\ quote.amount.v * 100 >= min_fares(quote.ride_type) * surge

\* C24: the surge multiplier depends on the hour and the weekday alone and is
\* 1.0 plus 0.2 in a peak hour plus 0.1 at the weekend: one of 1.0, 1.1, 1.2
\* and 1.3 (never 1.2 * 1.1), and never below 1
C24_SurgeIsAdditive ==
    quote.fn = "get_surge_multiplier"
        => LET peak == quote.hour \in (7..9) \cup (17..19)
               weekend == quote.weekday \in {5, 6}
           IN  /\ quote.amount.v = 100 + (IF peak THEN 20 ELSE 0)
                                       + (IF weekend THEN 10 ELSE 0)
               /\ quote.amount.v >= 100

\* the multiplier of a peak hour at the weekend has been computed
C24_PeakHourAtTheWeekend ==
    /\ quote.fn = "get_surge_multiplier"
    /\ quote.hour \in (7..9) \cup (17..19) /\ quote.weekday \in {5, 6}
    /\ quote.amount.v = 130

(* ---------------------------------------------------------------------- *)
(* C25: what a location update leaves alone                                 *)
(* ---------------------------------------------------------------------- *)
\* the handlers that report a location in more than one step
LocationOps == {"handle_driver_location_update", "rider_handle_location_update"}

\* the profiles of a collection whose location this step changes
Relocated(before, after) ==
    {k \in DOMAIN before : after[k].current_location # before[k].current_location}

\* this step is one of a location update: a location changes, a location
\* event goes out, or a location handler moves on
LocationStep ==
    \/ Relocated(drivers, drivers') # {}
    \/ Relocated(riders, riders') # {}
    \/ \E e \in events' \ events :
         e.event \in {"driver_location_update", "location_updated",
                      "rider_location_update"}
    \/ \E c \in InFlight \cup BagToSet(calls') :
         c.op \in LocationOps /\ CopiesIn(c, calls') # CopiesIn(c, calls)

DriverLocationEvents == {"driver_location_update", "location_updated"}

\* the statuses of a ride that is accepted or under way
BoundStatuses == {"accepted", "in_progress", "started"}

\* ride is bound to the driver with user id u: its driver_id names the driver
\* (the profile in the app deployment, the user in the legacy one), or the
\* driver's current_ride_id names the ride
BoundRide(ride, u) ==
    LET d == IF deployment = "app" THEN DriverKeyByUser(ObjectId(Identity(u)))
             ELSE DriverKeyByUser(Identity(u))
    IN  /\ ride.status \in BoundStatuses
        /\ \/ ride.driver_id = (IF deployment = "app" /\ d # 0 THEN drivers[d]._id
                                 ELSE Identity(u))
           \/ d # 0 /\ drivers[d].current_ride_id \in {ride._id, str(ride._id)}

RideClasses ==
    IF deployment = "app" THEN {"standard", "premium", "luxury"}
    ELSE {"economy", "comfort", "premium", "xl"}

\* C27: a ride request with a missing pickup or destination, a place off
\* the map or an unknown ride class inserts no ride: every ride stored has a
\* pickup on the map and a ride class of the tariff; and a handler that
\* takes such a request on changes no ride, rider or driver.
C27_NoRideFromAnIllFormedRequest ==
    /\ [](\A i \in DOMAIN rides :
            /\ rides[i].pickup_location.t = "num"
            /\ Latitude(rides[i].pickup_location) \in -90..90
            /\ rides[i].ride_type \in RideClasses)
    /\ [][\A c \in BagToSet(calls') \ InFlight :
            c.op \in {"request_ride", "legacy_request_ride"} /\ c.pc = "insert"
            => /\ c.location.t = "num" /\ Latitude(c.location) \in -90..90
               /\ c.ride_type \in RideClasses
               /\ UNCHANGED <<rides, riders, drivers>>]_vars

(* ---------------------------------------------------------------------- *)
(* C28: notifications that fail after the transition                        *)
(* ---------------------------------------------------------------------- *)
\* services/notifications.py: True when insert_one stored the notification,
\* False when it raised (the exception is logged, not passed on)
send_notification(inserted) == inserted

\* the last step of a legacy REST handler that has written a ride
\* transition, after which it notifies and answers
NotifyingSteps ==
    {<<"legacy_request_ride", "assign">>,
     <<"legacy_accept_ride", "update_driver">>,
     <<"legacy_start_ride", "update_ride">>,
     <<"legacy_complete_ride", "insert_payment">>,
     <<"legacy_cancel_ride", "update_ride">>,
     <<"legacy_cancel_ride", "update_driver">>}

\* the status the handler answers after that step, inserted being the
\* outcome of the notification's insert_one.  request_ride builds the
\* rider's message from driver["first_name"], a key driver documents do
\* not have: KeyError, 500.  complete_ride answers 500 when the payment
\* insert raised before the notification.
legacy_answer(c, inserted) ==
    LET sent == send_notification(inserted)
    IN  CASE c.op = "legacy_request_ride" ->
                IF c.pc = "assign" THEN 500 ELSE 201
          [] c.op = "legacy_complete_ride" ->
                IF c.ride_id.v \in payments THEN 500 ELSE 200
          [] OTHER -> IF sent THEN 200 ELSE 200

\* the status a ride has once the handler op has written its transition
Written(op) ==
    CASE op \in {"legacy_request_ride", "legacy_accept_ride"} -> {"accepted"}
      [] op = "legacy_start_ride" -> {"started"}
      [] op = "legacy_complete_ride" -> {"completed"}
      [] OTHER -> {"cancelled"}

\* C28: when a legacy REST handler returns after writing a ride transition,
\* whether its notification was stored or not, the step leaves the ride
\* in the status any write left it in, and the handler answers 200; the
\* answer does not depend on the notification (a payment that could not be
\* recorded aside).
C28_NotificationFailureIsNotAFailure ==
    [][\A c \in InFlight :
         /\ <<c.op, c.pc>> \in NotifyingSteps
         /\ BagCardinality(calls') < BagCardinality(calls)
         /\ CopiesIn(c, calls') < CopiesIn(c, calls)
         => /\ \A i \in DOMAIN rides :
                 rides'[i].status # rides[i].status
                   => rides'[i].status \in Written(c.op)
            /\ legacy_answer(c, FALSE) = legacy_answer(c, TRUE)
            /\ c.op # "legacy_complete_ride" => legacy_answer(c, FALSE) = 200
    ]_vars

(* ---------------------------------------------------------------------- *)
(* C29: the rider's current_ride_id                                         *)
(* ---------------------------------------------------------------------- *)
\* the statuses after which a ride is over
Terminal == {"completed", "cancelled"}

\* C29: a rider's current_ride_id, when set, names a ride of that rider
\* that is neither completed nor cancelled.
C29_RiderPointerNamesAnActiveRide ==
    \A r \in DOMAIN riders :
      Truthy(get(riders[r].current_ride_id)) =>
        \E i \in DOMAIN rides :
          /\ str(rides[i]._id) = str(riders[r].current_ride_id)
          /\ str(rides[i].rider_id) = str(riders[r].user_id)
          /\ rides[i].status \notin Terminal

(* ---------------------------------------------------------------------- *)
(* C30: who is offered a ride                                               *)
(* ---------------------------------------------------------------------- *)
\* driver d could take a ride of class ride_type at pickup: online, without
\* a ride, within 10 km, with a vehicle the class accepts
Offerable(d, pickup, ride_type) ==
    /\ drivers[d].is_online
    /\ get(drivers[d].current_ride_id) = None
    /\ drivers[d].current_location.t = "num"
    /\ drivers[d].current_location.v - pickup.v \in -10000..10000
    /\ drivers[d].vehicle_type \in compatibility_matrix(ride_type)

\* C30: a new_ride_request event for a ride goes only to drivers that, in
\* the state the rider socket's query reads, are online with no current
\* ride, within the 10 km search radius of the ride's pickup, and drive a
\* vehicle compatible with the ride's class.
C30_OfferedOnlyToEligibleDrivers ==
    [][\A e \in events' \ events :
         e.event = "new_ride_request" =>
           LET ride == FindRide(ObjectId(e.ride_id))
           IN  /\ ride # NoRide
               /\ e.to \in DriverUsers
               /\ Offerable(e.to, ride.pickup_location, ride.ride_type)]_vars

\* a ride has been offered to one driver and not to the other, who is
\* online and free but 12 km away or in a vehicle the class does not accept
C30_OfferedToOneDriverOnly ==
    \E e \in events, d \in DriverUsers :
      /\ e.event = "new_ride_request"
      /\ d # e.to
      /\ Event("new_ride_request", d, d, e.ride_id) \notin events
      /\ drivers[d].is_online /\ get(drivers[d].current_ride_id) = None
      /\ \/ drivers[d].current_location = Num(12000)
         \/ drivers[d].vehicle_type
              \notin compatibility_matrix(FindRide(ObjectId(e.ride_id)).ride_type)

(* ---------------------------------------------------------------------- *)
(* C31: a cancel between the insert and the assignment of request_ride      *)
(* ---------------------------------------------------------------------- *)
\* the request handler c writes its assignment in this step
Assigns(c) ==
    /\ c \in InFlight /\ c.op = "legacy_request_ride" /\ c.pc = "assign"
    /\ CopiesIn(c, calls') < CopiesIn(c, calls)

\* C31: the assignment write of request_ride applies only to a ride that is
\* still requested: when the ride was cancelled after its insert, the write
\* leaves it cancelled and without a driver.
C31_AssignmentSparesACancelledRide ==
    [][\A c \in InFlight :
         Assigns(c) =>
           LET i == RideIndex(ObjectId(c.ride_id))
           IN  rides[i].status # "requested" =>
                 /\ rides'[i].status = rides[i].status
                 /\ rides'[i].driver_id = rides[i].driver_id]_vars

(* ---------------------------------------------------------------------- *)
(* C32: a ride no driver was found for                                      *)
(* ---------------------------------------------------------------------- *)
\* the request handler that inserted ride i has returned
Dispatched(i) ==
    \A c \in InFlight :
      c.op = "legacy_request_ride" => c.ride_id # str(rides[i]._id)

\* handler c takes a step
Steps(c) == c \in InFlight /\ CopiesIn(c, calls') < CopiesIn(c, calls)

\* C32: a ride for which request_ride found no driver is left requested
\* without a driver_id, the request answers 201 with the ride id, and from
\* then on only a step of an accept or a cancel of that ride changes it.
C32_UnmatchedRideWaitsForAcceptOrCancel ==
    /\ [](\A i \in DOMAIN rides :
            rides[i].status = "requested" => get(rides[i].driver_id) = None)
    /\ [][/\ \A c \in InFlight :
              /\ Steps(c) /\ c.op = "legacy_request_ride"
              /\ c.pc = "find_nearest_driver"
              /\ BagCardinality(calls') < BagCardinality(calls)
              => /\ legacy_answer(c, TRUE) = 201
                 /\ rides' = rides
          /\ \A i \in DOMAIN rides :
              /\ rides[i].status = "requested" /\ Dispatched(i)
              /\ rides'[i] # rides[i]
              => \E c \in InFlight :
                   /\ Steps(c)
                   /\ c.op \in {"legacy_accept_ride", "legacy_cancel_ride"}
                   /\ c.ride_id = str(rides[i]._id)]_vars

\* request_ride has returned without a driver for the ride although a
\* driver is online, free and next to the pickup: its vehicle does not suit
\* the class
C32_LeftRequestedBesideADriver ==
    \E i \in DOMAIN rides, d \in DriverUsers :
      /\ rides[i].status = "requested" /\ Dispatched(i)
      /\ drivers[d].is_online /\ drivers[d].current_ride_id = None
      /\ drivers[d].current_location = Num(1000)
      /\ drivers[d].vehicle_type \notin compatibility_matrix(rides[i].ride_type)

(* ---------------------------------------------------------------------- *)
(* C33: the write of an accept                                              *)
(* ---------------------------------------------------------------------- *)
\* the driver profile an accept in flight writes for
Accepting(c) ==
    IF c.op = "accept_ride" THEN DriverKeyById(c.driver_id)
    ELSE DriverKeyByUser(c.user)

\* C33: an accept changes a ride only if, in the state its write is applied
\* to, the ride is requested and the driver's current_ride_id is null.
C33_AcceptWritesOnlyWhenBothAreFree ==
    [][\A c \in InFlight :
         /\ Steps(c) /\ c.op \in {"accept_ride", "legacy_accept_ride"}
         /\ c.pc = "update_ride"
         /\ rides' # rides
         => LET ride == FindRide(ObjectId(c.ride_id))
                d == Accepting(c)
            IN  /\ ride.status = "requested"
                /\ d # 0
                /\ get(drivers[d].current_ride_id) = None]_vars

(* ---------------------------------------------------------------------- *)
(* C34: what the rider hears of a socket request                            *)
(* ---------------------------------------------------------------------- *)
\* C34: when the rider socket answers a request with an error, no ride was
\* inserted for it, the rider's current_ride_id was not set to it and no
\* driver was offered it; a ride that was inserted is answered with
\* ride_requested.
C34_ErrorMeansNoRide ==
    \A e \in events :
      e.event \in {"error", "ride_requested"} =>
        /\ e.event = "error" =>
             /\ FindRide(ObjectId(e.ride_id)) = NoRide
             /\ \A r \in DOMAIN riders : riders[r].current_ride_id # e.ride_id
             /\ \A o \in events :
                  o.event = "new_ride_request" => o.ride_id # e.ride_id
        /\ FindRide(ObjectId(e.ride_id)) # NoRide => e.event = "ride_requested"

(* ---------------------------------------------------------------------- *)
(* C35: going offline beside an accept                                      *)
(* ---------------------------------------------------------------------- *)
\* C35: go_offline never leaves its driver offline and bound to an active
\* ride: whenever the write of go_offline sets is_online to false, the
\* driver's current_ride_id does not name an accepted or started ride,
\* whatever accept_ride of the same driver does in between.
C35_OfflineWriteFindsNoActiveRide ==
    [][\A c \in InFlight :
         Steps(c) /\ c.op = "go_offline" /\ c.pc = "update_driver"
         => LET after == drivers'[DriverKeyById(c.driver_id)]
                ride == FindRide(after.current_ride_id)
            IN  ~ /\ ~after.is_online
                  /\ ride # NoRide
                  /\ ride.status \in {"accepted", "in_progress", "started"}]_vars

(* ---------------------------------------------------------------------- *)
(* C36: a driver whose socket dropped                                       *)
(* ---------------------------------------------------------------------- *)
\* the profile was marked offline by the disconnect handler (socket_id is
\* null, not missing) and is still offline
Dropped(d) == drivers[d].socket_id = None /\ ~drivers[d].is_online

\* C36: a driver marked offline by the disconnect handler is not selected by
\* find_nearest_driver or find_nearest_drivers and does not become online
\* again by any step other than setting its status: completing or cancelling
\* its ride leaves it offline.
C36_DroppedDriverStaysOffline ==
    /\ [](\A d \in DOMAIN drivers :
            Dropped(d) =>
              \A ride_type \in RideTypes :
                /\ d \notin find_nearest_driver(PickupKm * 1000, ride_type)
                /\ d \notin find_nearest_drivers(PickupKm * 1000, ride_type, 10))
    /\ [][\A d \in DOMAIN drivers :
            Dropped(d) /\ drivers'[d].is_online
            => \E c \in InFlight :
                 Steps(c) /\ c.op = "update_driver_status"]_vars

(* ---------------------------------------------------------------------- *)
(* C37: what reaches a ride room as ride_status_changed                     *)
(* ---------------------------------------------------------------------- *)
\* user_id is the rider of the ride or the user of its driver
Participant(ride, user_id) ==
    \/ ride.rider_id = ObjectId(user_id)
    \/ /\ Truthy(get(ride.driver_id))
       /\ \E d \in DOMAIN drivers :
            /\ drivers[d]._id = ride.driver_id
            /\ drivers[d].user_id = ObjectId(user_id)

\* C37: every ride_status_changed event delivered in a ride's room carries
\* the status the ride has in the database at that moment and was sent by
\* the ride's rider or driver.
C37_RoomHearsThePersistedStatus ==
    [][\A e \in events' \ events :
         e.event = "ride_status_changed"
         => LET ride == FindRide(ObjectId(e.ride_id))
            IN  /\ ride # NoRide
                /\ e.status = ride.status
                /\ Participant(ride, e.updated_by)]_vars

(* ---------------------------------------------------------------------- *)
(* C38: connected_clients                                                   *)
(* ---------------------------------------------------------------------- *)
SocketOps == {"handle_join_ride_room", "handle_driver_location_update"}

\* the user_ids of the sessions that have an entry
Registered == {connected_clients[s].user_id : s \in DOMAIN connected_clients}

\* C38: connected_clients has an entry for a session exactly when the session
\* completed connect and has not disconnected, a connection stands only on a
\* token that decodes, and the entry is that token's; the handlers of
\* driver_location_update, join_ride_room, ride_status_update and
\* send_message start nothing and emit nothing for a session without entry.
C38_RegistryMirrorsTheSessions ==
    /\ [](\A sid \in DOMAIN sessions :
            /\ sid \in DOMAIN connected_clients <=> sessions[sid].connected
            /\ sessions[sid].connected
               => /\ sessions[sid].token = TokenOf(sid.v)
                  /\ connected_clients[sid] =
                       [user_id |-> Identity(sid.v), user_type |-> UserType(sid.v)])
    /\ [][/\ \A c \in InFlight' \ InFlight :
               /\ c.op \in SocketOps
               /\ BagCardinality(calls') > BagCardinality(calls)
               => c.user \in Registered
          /\ \A e \in events' \ events :
               e.event \in {"ride_status_changed", "new_message"}
               => e.updated_by \in Registered]_vars

\* a message reached a ride room and its sender has disconnected since, while
\* another session is registered and sits in that room
C38_SenderGoneListenerRegistered ==
    \E e \in events :
      /\ e.event = "new_message"
      /\ Sid(e.updated_by.v) \notin DOMAIN connected_clients
      /\ Sid(e.to) \in DOMAIN connected_clients
      /\ RideRoom(e.ride_id) \in sessions[Sid(e.to)].rooms
      /\ e.to # e.updated_by.v

====
